---------------------------- MODULE Spec2Model ----------------------------
(***************************************************************************)
(* Model of src/script.js: the well dashboard.  The feed normaliser        *)
(* (parseWellsFromData and its date helpers) is modelled as a loop machine *)
(* (SpecParse); the polling gate (fetchData / updateDashboard) as a        *)
(* machine over successive polls (Spec); the date helpers called on two    *)
(* hosts (SpecHelpers); overlapping polls (SpecRace); the rendered         *)
(* document with the settings modal in use (SpecSettings); and the         *)
(* auto-scroll of the table over time (SpecScroll).                        *)
(*                                                                         *)
(* JavaScript values are records tagged by `t`.  A string is the sequence  *)
(* of its characters, so that trim, toUpperCase, split, parseInt and       *)
(* parseFloat are computed and not assumed.  A finite number is an exact   *)
(* decimal: sign, integer part, fraction digits (no trailing zero).        *)
(***************************************************************************)
EXTENDS Integers, Sequences, FiniteSets, TLC

VARIABLES
  data,          \* parseWellsFromData: the argument (the payload)
  pc,            \* parseWellsFromData: position ("entry","rows","returned","threw")
  j,             \* parseWellsFromData: the loop index of line 1171 (0-based)
  result,        \* parseWellsFromData: the local `result` ({wells: [...]})
  currentData,   \* line 10: the module-level snapshot
  lastPayload,   \* the payload of the previous successful poll, as received
  poll,          \* the last poll handled: kind, payload and what it did
  renders,       \* number of updateDashboard passes that ran to completion
  errorHidden,   \* #error's hidden attribute
  polls,         \* number of polls handled so far
  calls,         \* parseWellsFromData: number of calls entered so far
  helperCall,    \* a call of a date helper: function, argument, the two hosts
  helperRet,     \* what that call returned, as read on each of the two hosts
  hiddenWellNames,       \* line 12
  hiddenStockItems,      \* line 14
  wellColors,            \* line 22
  localStorage,          \* the items of the five keys the page stores
  autoScrollToggle,      \* #autoScrollToggle.checked
  modalAutoScrollToggle, \* #modalAutoScrollToggle.checked
  bodyDark,              \* whether document.body has the class dark
  tablesWrapper,         \* the content of #tables-wrapper
  modalWellControls,     \* the checkboxes of #modalWellControls
  modalStockControls,    \* the checkboxes of #modalStockControls
  modalColorControls,    \* the colour inputs of #modalColorControls
  kpiContainer,          \* the cards of #kpi-container
  autoScrollData,        \* line 16: the entries of the Map
  intervals,             \* the intervals of line 1044 that are running
  scrollListeners,       \* the scroll listeners of line 1037 that are registered
  now,                   \* Date.now()
  ui,                    \* the last handler that ran, and what it was given
  user,                  \* what the user did so far: wells hidden, last scroll, clicks
  inFlight,              \* the requests of fetchData awaiting their response
  issued,                \* number of requests issued so far
  shown                  \* whose payload currentData holds, and whose it replaced

docVars == <<hiddenWellNames, hiddenStockItems, wellColors, localStorage,
             autoScrollToggle, modalAutoScrollToggle, bodyDark, tablesWrapper,
             modalWellControls, modalStockControls, modalColorControls,
             kpiContainer, autoScrollData, intervals, scrollListeners>>
userVars == <<now, user>>
raceVars == <<inFlight, issued, shown>>
pageVars == <<docVars, ui, userVars, raceVars>>

vars == <<data, pc, j, result, currentData, lastPayload, poll, renders,
          errorHidden, polls, calls, helperCall, helperRet, pageVars>>

helperVars == <<helperCall, helperRet>>
parseVars == <<data, pc, j, result, calls>>
pollVars == <<currentData, lastPayload, poll, renders, errorHidden, polls>>

-----------------------------------------------------------------------------
(* JavaScript values *)

Undefined == [t |-> "undefined"]
Null == [t |-> "null"]
Bool(b) == [t |-> "boolean", b |-> b]
Str(cs) == [t |-> "string", s |-> cs]
NaN == [t |-> "number", k |-> "nan"]
Inf(neg) == [t |-> "number", k |-> "inf", neg |-> neg]
\* A finite number; zero is kept unsigned (-0 and 0 are equal and both falsy).
Num(neg, int, frac) ==
  [t |-> "number", k |-> "fin", neg |-> (neg /\ (int # 0 \/ frac # <<>>)),
   int |-> int, frac |-> frac]
NumInt(n) == IF n < 0 THEN Num(TRUE, 0 - n, <<>>) ELSE Num(FALSE, n, <<>>)
\* An object is its own properties in insertion order.
Obj(keys, vals) == [t |-> "object", keys |-> keys, vals |-> vals]
Arr(els) == [t |-> "array", els |-> els]
InvalidDate == [t |-> "date", valid |-> FALSE]
\* A Date is held by its local wall-clock components (month 0-based, as JS).
DateOf(y, mo, d, h, mi, s) ==
  [t |-> "date", valid |-> TRUE, y |-> y, mo |-> mo, d |-> d,
   h |-> h, mi |-> mi, s |-> s]

\* F(e), with e evaluated once before F is applied to its value.
Eval(F(_), e) == CHOOSE r \in {F(v) : v \in {e}} : TRUE
\* The sequence [n \in 1..k |-> e(n)] as the tuple of its values.
Tuple(f) == f \o <<>>

IsStr(v) == v.t = "string"
IsNum(v) == v.t = "number"
IsNaN(v) == v.t = "number" /\ v.k = "nan"
IsFinite(v) == v.t = "number" /\ v.k = "fin"
IsZero(v) == IsFinite(v) /\ v.int = 0 /\ v.frac = <<>>

\* ToBoolean: what `!x`, `x && ...`, `x || ...` and `if (x)` test.
Truthy(v) ==
  CASE v.t = "undefined" -> FALSE
    [] v.t = "null" -> FALSE
    [] v.t = "boolean" -> v.b
    [] v.t = "number" -> ~IsNaN(v) /\ ~IsZero(v)
    [] v.t = "string" -> v.s # <<>>
    [] OTHER -> TRUE

\* o[key]: an own property of an object; undefined on a missing key and on
\* the primitives and arrays of the feed (none has a property named like a
\* feed key).  Reading a property of null or undefined throws; every read
\* in the code is behind a truthiness test.
HasKey(o, key) == o.t = "object" /\ \E n \in 1..Len(o.keys) : o.keys[n] = key
GetProp(o, key) ==
  IF HasKey(o, key)
  THEN o.vals[CHOOSE n \in 1..Len(o.keys) : o.keys[n] = key]
  ELSE Undefined

\* o[key] = v: replaces the value in place when the key exists (its position
\* in the insertion order is kept), appends the property otherwise.
SetProp(o, key, v) ==
  IF HasKey(o, key)
  THEN [o EXCEPT !.vals =
          Tuple([n \in 1..Len(o.vals) |->
                   IF o.keys[n] = key THEN v ELSE o.vals[n]])]
  ELSE [o EXCEPT !.keys = Append(o.keys, key), !.vals = Append(o.vals, v)]

IsArray(v) == v.t = "array"
\* a[k] for a 0-based index: undefined past the end.
ArrGet(els, k) == IF k + 1 \in 1..Len(els) THEN els[k + 1] ELSE Undefined

-----------------------------------------------------------------------------
(* Strings *)

Digits == <<"0", "1", "2", "3", "4", "5", "6", "7", "8", "9">>
IsDigit(c) == \E d \in 1..Len(Digits) : Digits[d] = c
DigitVal(c) == (CHOOSE d \in 1..Len(Digits) : Digits[d] = c) - 1
IsSpace(c) == c \in {" ", "\t", "\n"}

LowerChars == <<"a", "b", "c", "d", "e", "f", "g", "h", "i", "j", "k", "l", "m",
                "n", "o", "p", "q", "r", "s", "t", "u", "v", "w", "x", "y", "z">>
UpperChars == <<"A", "B", "C", "D", "E", "F", "G", "H", "I", "J", "K", "L", "M",
                "N", "O", "P", "Q", "R", "S", "T", "U", "V", "W", "X", "Y", "Z">>
UpperChar(c) ==
  IF \E n \in 1..Len(LowerChars) : LowerChars[n] = c
  THEN UpperChars[CHOOSE n \in 1..Len(LowerChars) : LowerChars[n] = c]
  ELSE c
ToUpperCase(cs) == Tuple([n \in 1..Len(cs) |-> UpperChar(cs[n])])

RECURSIVE TrimStart(_)
TrimStart(cs) ==
  IF cs # <<>> /\ IsSpace(Head(cs)) THEN TrimStart(Tail(cs)) ELSE cs
RECURSIVE TrimEnd(_)
TrimEnd(cs) ==
  IF cs # <<>> /\ IsSpace(cs[Len(cs)])
  THEN TrimEnd(SubSeq(cs, 1, Len(cs) - 1)) ELSE cs
Trim(cs) == TrimEnd(TrimStart(cs))

\* The decimal digits of a natural number.
RECURSIVE NatChars(_)
NatChars(n) ==
  IF n < 10 THEN <<Digits[n + 1]>>
  ELSE NatChars(n \div 10) \o <<Digits[(n % 10) + 1]>>
\* The value of a sequence of digit characters.
RECURSIVE DigitsVal(_)
DigitsVal(cs) ==
  IF cs = <<>> THEN 0
  ELSE 10 * DigitsVal(SubSeq(cs, 1, Len(cs) - 1)) + DigitVal(cs[Len(cs)])
\* The longest prefix of digit characters.
RECURSIVE DigitPrefix(_)
DigitPrefix(cs) ==
  IF cs # <<>> /\ IsDigit(Head(cs)) THEN <<Head(cs)>> \o DigitPrefix(Tail(cs))
  ELSE <<>>
\* A digit sequence without its trailing zeros.
RECURSIVE DropTrailingZeros(_)
DropTrailingZeros(cs) ==
  IF cs # <<>> /\ cs[Len(cs)] = "0"
  THEN DropTrailingZeros(SubSeq(cs, 1, Len(cs) - 1)) ELSE cs

StartsWith(cs, pre) == Len(cs) >= Len(pre) /\ SubSeq(cs, 1, Len(pre)) = pre

\* Number.prototype.toString for the numbers of the feed (plain decimal
\* notation; the exponent notation of very large or small numbers is not
\* reached).
NumToChars(v) ==
  CASE v.k = "nan" -> <<"N", "a", "N">>
    [] v.k = "inf" -> (IF v.neg THEN <<"-">> ELSE <<>>)
                        \o <<"I", "n", "f", "i", "n", "i", "t", "y">>
    [] OTHER -> (IF v.neg THEN <<"-">> ELSE <<>>) \o NatChars(v.int)
                  \o (IF v.frac = <<>> THEN <<>> ELSE <<".">> \o v.frac)

\* x.toString() / String(x) / '' + x.  Array elements of the feed are
\* primitives; an array joins its elements' strings with commas.
RECURSIVE ToChars(_)
ToChars(v) ==
  CASE v.t = "string" -> v.s
    [] v.t = "number" -> NumToChars(v)
    [] v.t = "boolean" -> IF v.b THEN <<"t", "r", "u", "e">>
                                 ELSE <<"f", "a", "l", "s", "e">>
    [] v.t = "null" -> <<"n", "u", "l", "l">>
    [] v.t = "undefined" -> <<"u", "n", "d", "e", "f", "i", "n", "e", "d">>
    [] v.t = "array" ->
         IF v.els = <<>> THEN <<>>
         ELSE IF Len(v.els) = 1
              THEN (IF Head(v.els).t \in {"null", "undefined"} THEN <<>>
                    ELSE ToChars(Head(v.els)))
              ELSE (IF Head(v.els).t \in {"null", "undefined"} THEN <<>>
                    ELSE ToChars(Head(v.els)))
                   \o <<",">> \o ToChars(Arr(Tail(v.els)))
    [] OTHER -> <<"[", "o", "b", "j", "e", "c", "t", " ",
                  "O", "b", "j", "e", "c", "t", "]">>

\* parseFloat(x): the longest decimal-literal prefix of the trimmed string of
\* x: sign, then "Infinity" or digits with an optional fraction; NaN when
\* there is none.  (Exponents are not modelled: no string of the model holds
\* a digit followed by e or E.)
ParseFloatUnsigned(neg, cs) ==
  IF StartsWith(cs, <<"I", "n", "f", "i", "n", "i", "t", "y">>) THEN Inf(neg)
  ELSE
    LET ip == DigitPrefix(cs)
        rest == SubSeq(cs, Len(ip) + 1, Len(cs))
        fp == IF rest # <<>> /\ Head(rest) = "." THEN DigitPrefix(Tail(rest))
              ELSE <<>>
    IN IF ip = <<>> /\ fp = <<>> THEN NaN
       ELSE Num(neg, DigitsVal(ip), DropTrailingZeros(fp))
parseFloat(v) ==
  LET cs == TrimStart(ToChars(v))
  IN IF cs # <<>> /\ Head(cs) \in {"+", "-"}
     THEN ParseFloatUnsigned(Head(cs) = "-", Tail(cs))
     ELSE ParseFloatUnsigned(FALSE, cs)

\* parseInt(s, 10): sign and digits of the trimmed string; NaN when none.
parseInt(cs) ==
  LET t == TrimStart(cs)
      neg == t # <<>> /\ Head(t) = "-"
      u == IF t # <<>> /\ Head(t) \in {"+", "-"} THEN Tail(t) ELSE t
      ip == DigitPrefix(u)
  IN IF ip = <<>> THEN NaN ELSE Num(neg, DigitsVal(ip), <<>>)

\* s.split(sep) for a one-character separator; s.split(/\s+/) with
\* IsSpace as separator and runs of separators counted once.
RECURSIVE SplitOn(_, _)
SplitOn(cs, sep) ==
  IF \E n \in 1..Len(cs) : cs[n] = sep
  THEN LET n == CHOOSE m \in 1..Len(cs) :
                  cs[m] = sep /\ \A q \in 1..(m - 1) : cs[q] # sep
       IN <<SubSeq(cs, 1, n - 1)>> \o SplitOn(SubSeq(cs, n + 1, Len(cs)), sep)
  ELSE <<cs>>
RECURSIVE SplitSpaces(_)
SplitSpaces(cs) ==
  IF \E n \in 1..Len(cs) : IsSpace(cs[n])
  THEN LET n == CHOOSE m \in 1..Len(cs) :
                  IsSpace(cs[m]) /\ \A q \in 1..(m - 1) : ~IsSpace(cs[q])
       IN <<SubSeq(cs, 1, n - 1)>>
            \o SplitSpaces(TrimStart(SubSeq(cs, n + 1, Len(cs))))
  ELSE <<cs>>

-----------------------------------------------------------------------------
(* Dates *)

\* Days between 1970-01-01 and the first day of the proleptic Gregorian
\* month (y, m) with m in 1..12, plus d - 1: what Date's constructor and
\* getUTC* compute (ECMAScript MakeDay / YearFromTime).
DaysFromCivil(y, m, d) ==
  LET yy == IF m <= 2 THEN y - 1 ELSE y
      era == yy \div 400
      yoe == yy - era * 400
      mp == IF m > 2 THEN m - 3 ELSE m + 9
      doy == (153 * mp + 2) \div 5 + d - 1
      doe == yoe * 365 + yoe \div 4 - yoe \div 100 + doy
  IN era * 146097 + doe - 719468
CivilFromDays(z0) ==
  LET z == z0 + 719468
      era == z \div 146097
      doe == z - era * 146097
      yoe == (doe - doe \div 1460 + doe \div 36524 - doe \div 146096) \div 365
      doy == doe - (365 * yoe + yoe \div 4 - yoe \div 100)
      mp == (5 * doy + 2) \div 153
      d == doy - (153 * mp + 2) \div 5 + 1
      m == IF mp < 10 THEN mp + 3 ELSE mp - 9
      y == yoe + era * 400 + (IF m <= 2 THEN 1 ELSE 0)
  IN [y |-> y, m |-> m, d |-> d]

RECURSIVE Pow10(_)
Pow10(n) == IF n = 0 THEN 1 ELSE 10 * Pow10(n - 1)

\* The signed value of a finite integer-valued number.
IntOf(v) == IF v.neg THEN 0 - v.int ELSE v.int

\* new Date(year, month, day, hours, minutes, seconds) on numbers: the local
\* date-time with these components, overflowing components carried over
\* (MakeDay / MakeTime); a year in 0..99 means 1900 + year; any NaN or
\* infinite component gives an Invalid Date.
NewDate(year, month, day, hours, minutes, seconds) ==
  IF \E c \in {year, month, day, hours, minutes, seconds} : ~IsFinite(c)
  THEN InvalidDate
  ELSE
    LET y0 == IntOf(year)
        y1 == IF y0 >= 0 /\ y0 <= 99 THEN 1900 + y0 ELSE y0
        mo == IntOf(month)
        ym == y1 + mo \div 12
        mn == mo % 12
        days == DaysFromCivil(ym, mn + 1, 1) + IntOf(day) - 1
        secs == IntOf(hours) * 3600 + IntOf(minutes) * 60 + IntOf(seconds)
        dd == days + secs \div 86400
        sod == secs % 86400
        c == CivilFromDays(dd)
    IN DateOf(c.y, c.m - 1, c.d, sod \div 3600, (sod % 3600) \div 60, sod % 60)

\* A variant of UnixEpochSerial: the epoch one day later (1899-12-31).
UnixEpochSerial_From1899Dec31 == 25569 - 1

\* Line 1092: the serial of 1970-01-01 (num - 25569).
UnixEpochSerial == 25569

\* excelSerialToDate, lines 1081-1103.  (num - 25569) * 86400 * 1000 is the
\* serial's distance from serial 25569 (1970-01-01) in milliseconds; the UTC
\* components of that instant are then handed to the local-time constructor.
\* The instant is computed here exactly and in whole days and seconds of the
\* day (the code's getters drop the milliseconds); the model uses serials
\* whose fraction is a whole number of seconds and exact in binary floating
\* point.
excelSerialToDate(serial) ==
  Eval(LAMBDA num :
    IF IsNaN(num) THEN Null
    ELSE IF ~IsFinite(num) THEN InvalidDate
    ELSE
      LET n == Len(num.frac)
          F == DigitsVal(num.frac)
          dayNo == IF ~num.neg THEN num.int - UnixEpochSerial
                   ELSE 0 - num.int - UnixEpochSerial - (IF F > 0 THEN 1 ELSE 0)
          sod == IF ~num.neg THEN (F * 86400) \div Pow10(n)
                 ELSE IF F = 0 THEN 0
                 ELSE ((Pow10(n) - F) * 86400) \div Pow10(n)
      IN Eval(LAMBDA c :
           Eval(LAMBDA s :
             NewDate(NumInt(c.y), NumInt(c.m - 1), NumInt(c.d),
                     NumInt(s \div 3600), NumInt((s % 3600) \div 60),
                     NumInt(s % 60)),
             sod),
           CivilFromDays(dayNo)),
    parseFloat(serial))

\* parseDateTimeString, lines 1112-1138.
parseDateTimeString(str) ==
  IF ~Truthy(str) \/ ~IsStr(str) THEN Null
  ELSE
    LET trimmed == Trim(str.s)
    IN IF trimmed = <<>> THEN Null
       ELSE
         LET parts == SplitSpaces(trimmed)
             datePart == parts[1]
             dateSegs == SplitOn(datePart, "/")
         IN IF Len(dateSegs) # 3 THEN Null
            ELSE
              LET day == parseInt(dateSegs[1])
                  month == parseInt(dateSegs[2])
                  year == parseInt(dateSegs[3])
              IN IF ~IsFinite(day) \/ ~IsFinite(month) \/ ~IsFinite(year)
                 THEN Null
                 ELSE
                   LET timeSegs == IF Len(parts) > 1
                                   THEN SplitOn(parts[2], ":") ELSE <<>>
                       hour == IF Len(timeSegs) >= 2
                               THEN parseInt(timeSegs[1]) ELSE NumInt(0)
                       minute == IF Len(timeSegs) >= 2
                                 THEN parseInt(timeSegs[2]) ELSE NumInt(0)
                       second == IF Len(timeSegs) >= 3
                                 THEN parseInt(timeSegs[3]) ELSE NumInt(0)
                   IN NewDate(year, NumInt(IntOf(month) - 1), day,
                              hour, minute, second)

TwoDigits(n) == IF n < 10 THEN <<"0">> \o NatChars(n) ELSE NatChars(n)
InvalidDateChars ==
  <<"I", "n", "v", "a", "l", "i", "d", " ", "D", "a", "t", "e">>
\* date.toLocaleDateString('es-AR'): day/month/year without padding.
toLocaleDateString(dt) ==
  IF ~dt.valid THEN InvalidDateChars
  ELSE NatChars(dt.d) \o <<"/">> \o NatChars(dt.mo + 1) \o <<"/">>
         \o (IF dt.y < 0 THEN <<"-">> \o NatChars(0 - dt.y) ELSE NatChars(dt.y))
\* date.toLocaleTimeString('es-AR', { hour12: false }): HH:MM:SS.
toLocaleTimeString(dt) ==
  IF ~dt.valid THEN InvalidDateChars
  ELSE TwoDigits(dt.h) \o <<":">> \o TwoDigits(dt.mi) \o <<":">>
         \o TwoDigits(dt.s)

-----------------------------------------------------------------------------
(* parseWellsFromData, lines 1148-1260 *)

\* Property names: a base name and a well slot (0 for the plain names).
Key(base) == <<base, 0>>
SlotKey(base, i) == <<base, i>>

\* Lines 1156 and 1176: for (let i = 1; i <= 6; i++).
WellSlots == 6

\* Lines 1162 and 1165: the test that rejects a header value as a name.
NameUnusable(name) ==
  \/ ~Truthy(name)
  \/ Trim(ToChars(name)) = <<>>
  \/ ToUpperCase(Trim(ToChars(name))) = <<"X">>

\* A variant of WellName that prefers the primary key (TPNPozo).
WellName_PrimaryFirst(headerRow, i) ==
  LET altName == GetProp(headerRow, SlotKey("FechaFracPozo", i))
      tpnName == GetProp(headerRow, SlotKey("TPNPozo", i))
  IN IF ~NameUnusable(tpnName) THEN tpnName
     ELSE IF ~NameUnusable(altName) THEN altName
     ELSE Str(<<"P", "o", "z", "o", " ">> \o NatChars(i))

\* Lines 1157-1167: the name of well slot i.
WellName(headerRow, i) ==
  LET altName == GetProp(headerRow, SlotKey("FechaFracPozo", i))
      tpnName == GetProp(headerRow, SlotKey("TPNPozo", i))
  IN IF ~NameUnusable(altName) THEN altName
     ELSE IF ~NameUnusable(tpnName) THEN tpnName
     ELSE Str(<<"P", "o", "z", "o", " ">> \o NatChars(i))

\* A variant of HeaderWells that builds the wells from slot 6 down to 1.
HeaderWells_Reversed(items) ==
  LET headerRow == IF Truthy(ArrGet(items, 0)) THEN ArrGet(items, 0)
                   ELSE Obj(<<>>, <<>>)
  IN Tuple([i \in 1..WellSlots |->
              [name |-> WellName(headerRow, WellSlots + 1 - i),
               etapas |-> <<>>]])

\* Lines 1154-1169: the wells built from the header record.
HeaderWells(items) ==
  LET headerRow == IF Truthy(ArrGet(items, 0)) THEN ArrGet(items, 0)
                   ELSE Obj(<<>>, <<>>)
  IN Tuple([i \in 1..WellSlots |->
              [name |-> WellName(headerRow, i), etapas |-> <<>>]])

\* A variant of NoItems without the length test.
NoItems_AcceptsEmpty(d) ==
  \/ ~Truthy(d)
  \/ ~IsArray(GetProp(d, Key("items")))

\* Lines 1150-1152: the guard that returns the empty result.
NoItems(d) ==
  \/ ~Truthy(d)
  \/ ~IsArray(GetProp(d, Key("items")))
  \/ Len(GetProp(d, Key("items")).els) = 0

\* Line 1174: (row.Fila || '').trim() throws a TypeError when row.Fila is
\* truthy and not a string (numbers, booleans, objects and arrays have no
\* trim method).
FilaOrEmpty(row) ==
  IF Truthy(GetProp(row, Key("Fila"))) THEN GetProp(row, Key("Fila"))
  ELSE Str(<<>>)
RowThrows(row) == Truthy(row) /\ ~IsStr(FilaOrEmpty(row))
StageLabel(row) == Trim(FilaOrEmpty(row).s)
\* A variant of RowSkipped that tests the label before trimming it.
RowSkipped_Untrimmed(row) == ~Truthy(row) \/ FilaOrEmpty(row).s = <<>>
\* Lines 1173 and 1175: the two `continue`s.
RowSkipped(row) == ~Truthy(row) \/ StageLabel(row) = <<>>

\* `${datePart}, ${timePart}`, lines 1193-1196 and 1205-1207.
DateTimeChars(dt) ==
  toLocaleDateString(dt) \o <<",", " ">> \o toLocaleTimeString(dt)

\* Lines 1185-1213.
FechaHora(secVal) ==
  IF ~Truthy(secVal) THEN Str(<<>>)
  ELSE Eval(LAMBDA num :
    IF ~IsNaN(num)
    THEN Eval(LAMBDA dateObj :
                IF Truthy(dateObj) THEN Str(DateTimeChars(dateObj))
                ELSE Str(ToChars(secVal)),
              excelSerialToDate(num))
    ELSE IF IsStr(secVal) /\ Trim(secVal.s) # <<>>
    THEN Eval(LAMBDA dt :
                IF Truthy(dt) THEN Str(DateTimeChars(dt)) ELSE secVal,
              parseDateTimeString(secVal))
    ELSE Str(<<>>),
    parseFloat(secVal))

\* Lines 1215-1218.
Profundidad(tpnVal) ==
  IF ~Truthy(tpnVal) THEN Null
  ELSE Eval(LAMBDA num : IF ~IsNaN(num) THEN num ELSE Null,
            parseFloat(tpnVal))

\* Lines 1223-1247: the pair (fechaFracStr, fechaFracDate).
FechaFrac(fracVal) ==
  IF ~Truthy(fracVal) THEN [str |-> Str(<<>>), date |-> Null]
  ELSE Eval(LAMBDA num :
    IF ~IsNaN(num)
    THEN Eval(LAMBDA fracDate :
                IF Truthy(fracDate)
                THEN [str |-> Str(toLocaleDateString(fracDate)),
                      date |-> fracDate]
                ELSE [str |-> Str(<<>>), date |-> Null],
              excelSerialToDate(num))
    ELSE Eval(LAMBDA tryDt :
                IF Truthy(tryDt)
                THEN [str |-> Str(toLocaleDateString(tryDt)), date |-> tryDt]
                ELSE [str |-> fracVal, date |-> Null],
              parseDateTimeString(fracVal)),
    parseFloat(fracVal))

\* A variant of BuildStage that reads every well's depth from slot 1.
BuildStage_DepthOfFirstSlot(row, i) ==
  Eval(LAMBDA frac :
         [etapa |-> Str(StageLabel(row)),
          fechaHora |-> FechaHora(GetProp(row, SlotKey("SecuenciaPozo", i))),
          profundidad |-> Profundidad(GetProp(row, SlotKey("TPNPozo", 1))),
          fechaFractura |-> frac.str,
          fechaFracturaDate |-> frac.date],
       FechaFrac(GetProp(row, SlotKey("FechaFracPozo", i))))

\* Lines 1177-1255: the stage of well slot i for a labelled row.
BuildStage(row, i) ==
  Eval(LAMBDA frac :
         [etapa |-> Str(StageLabel(row)),
          fechaHora |-> FechaHora(GetProp(row, SlotKey("SecuenciaPozo", i))),
          profundidad |-> Profundidad(GetProp(row, SlotKey("TPNPozo", i))),
          fechaFractura |-> frac.str,
          fechaFracturaDate |-> frac.date],
       FechaFrac(GetProp(row, SlotKey("FechaFracPozo", i))))

\* Lines 1176-1256: one labelled row pushes one stage onto every well.
PushStages(wells, row) ==
  Tuple([i \in 1..WellSlots |->
           [wells[i] EXCEPT !.etapas = Append(@, BuildStage(row, i))]])

\* A variant of FirstStageIndex: the loop starts at the reserved record.
FirstStageIndex_FromReserved == 2 - 1

\* Line 1171: the first index of the stage loop.
FirstStageIndex == 2

\* The whole call: [threw, wells].  The rows are folded from index
\* FirstStageIndex on, stopping at the first row that throws.
RECURSIVE ParseRowsFrom(_, _, _)
ParseRowsFrom(items, k, wells) ==
  IF k >= Len(items) THEN [threw |-> FALSE, wells |-> wells]
  ELSE LET row == ArrGet(items, k)
           Rest(w) == ParseRowsFrom(items, k + 1, w)
       IN IF RowThrows(row) THEN [threw |-> TRUE, wells |-> wells]
          ELSE IF RowSkipped(row) THEN ParseRowsFrom(items, k + 1, wells)
          ELSE Eval(Rest, PushStages(wells, row))
parseWellsFromData(d) ==
  IF NoItems(d) THEN [threw |-> FALSE, wells |-> <<>>]
  ELSE LET Rows(w) == ParseRowsFrom(GetProp(d, Key("items")).els,
                                    FirstStageIndex, w)
       IN Eval(Rows, HeaderWells(GetProp(d, Key("items")).els))

\* A variant of ParseEntry whose result object outlives the call: the wells
\* of this call are added to those of the previous one.
ParseEntry_KeepsWells ==
  /\ pc = "entry"
  /\ IF NoItems(data)
     THEN /\ result' = result
          /\ pc' = "returned"
          /\ j' = j
     ELSE /\ result' = [wells |->
                          HeaderWells(GetProp(data, Key("items")).els)
                            \o result.wells]
          /\ pc' = "rows"
          /\ j' = FirstStageIndex
  /\ UNCHANGED <<data, calls, pollVars, helperVars, pageVars>>

\* The call as a machine: entry (lines 1149-1169), one step per iteration of
\* the loop of line 1171, and the return of line 1259.
ParseEntry ==
  /\ pc = "entry"
  /\ IF NoItems(data)
     THEN /\ result' = [wells |-> <<>>]
          /\ pc' = "returned"
          /\ j' = j
     ELSE /\ result' = [wells |-> HeaderWells(GetProp(data, Key("items")).els)]
          /\ pc' = "rows"
          /\ j' = FirstStageIndex
  /\ UNCHANGED <<data, calls, pollVars, helperVars, pageVars>>

ParseRow ==
  /\ pc = "rows"
  /\ j < Len(GetProp(data, Key("items")).els)
  /\ LET row == ArrGet(GetProp(data, Key("items")).els, j)
     IN IF RowThrows(row)
        THEN pc' = "threw" /\ UNCHANGED <<j, result>>
        ELSE /\ pc' = pc
             /\ j' = j + 1
             /\ result' = IF RowSkipped(row) THEN result
                          ELSE [wells |-> PushStages(result.wells, row)]
  /\ UNCHANGED <<data, calls, pollVars, helperVars, pageVars>>

ParseReturn ==
  /\ pc = "rows"
  /\ j >= Len(GetProp(data, Key("items")).els)
  /\ pc' = "returned"
  /\ UNCHANGED <<data, j, result, calls, pollVars, helperVars, pageVars>>

-----------------------------------------------------------------------------
(* The payloads of the model *)

\* Number of stage rows (records from index 2 on) of a payload.
MaxRows == 2

\* An object literal: the properties whose value is not missing, in order.
HasValue(p) == p[2] # Undefined
MkObj(pairs) ==
  LET kept == SelectSeq(pairs, HasValue)
  IN Obj(Tuple([n \in 1..Len(kept) |-> kept[n][1]]),
         Tuple([n \in 1..Len(kept) |-> kept[n][2]]))

\* Raw (sequence, depth, fracture) values of one well slot of a stage row.
SlotTriples ==
  << <<Str(<<"4", "5", "2", "9", "2">>), Str(<<"2", "5", "0", "0", ".", "5">>), Str(<<"4", "5", "3", "0", "0">>)>>,
     <<Undefined, Undefined, Undefined>>,
     <<Str(<<"0", "5", "/", "0", "3", "/", "2", "0", "2", "4", " ", "1", "4", ":", "3", "0">>), NumInt(0), Str(<<"F", "R", "A", "C", "T", "U", "R", "A", "D", "O">>)>>,
     <<Num(FALSE, 45292, <<"7", "5">>), Str(<<"0">>), Str(<<"0", "5", "/", "0", "3", "/", "2", "0", "2", "4">>)>>,
     <<Str(<<"a", "b", "c">>), Str(<<"a", "b", "c">>), NumInt(45300)>>,
     <<Str(<<>>), Str(<<"I", "n", "f", "i", "n", "i", "t", "y">>), Null>>,
     <<Bool(TRUE), NumInt(12), Obj(<<>>, <<>>)>>,
     <<Null, Str(<<" ", "7", "x">>), Str(<<" ">>)>>,
     <<Str(<<"I", "n", "f", "i", "n", "i", "t", "y">>), Undefined, Str(<<"I", "n", "f", "i", "n", "i", "t", "y">>)>> >>

\* Header values (alternate FechaFracPozo, primary TPNPozo) of one well slot.
HeaderPairs ==
  << <<Str(<<"A", "1">>), Str(<<"P", "1">>)>>,
     <<Undefined, Str(<<"P", "1">>)>>,
     <<Str(<<"X">>), Str(<<" ", "B", "2", " ">>)>>,
     <<Str(<<" ", "x", " ">>), Undefined>>,
     <<Str(<<>>), Str(<<"X">>)>>,
     <<Undefined, Undefined>>,
     <<Null, Str(<<"A", "1">>)>>,
     <<Str(<<"A", "1">>), Undefined>> >>

\* Slot i takes the entry i + r (cyclically) of a list: every slot meets
\* every entry, and the slots of one record differ.
Rotated(list, i, r) == list[((i - 1 + r) % Len(list)) + 1]

RECURSIVE RowPairs(_, _)
RowPairs(i, r) ==
  IF i > WellSlots THEN <<>>
  ELSE << <<SlotKey("SecuenciaPozo", i), Rotated(SlotTriples, i, r)[1]>>,
          <<SlotKey("TPNPozo", i), Rotated(SlotTriples, i, r)[2]>>,
          <<SlotKey("FechaFracPozo", i), Rotated(SlotTriples, i, r)[3]>> >>
         \o RowPairs(i + 1, r)
RowOf(fila, r) == MkObj(<< <<Key("Fila"), fila>> >> \o RowPairs(1, r))

RECURSIVE HeaderPairsFrom(_, _)
HeaderPairsFrom(i, r) ==
  IF i > WellSlots THEN <<>>
  ELSE << <<SlotKey("TPNPozo", i), Rotated(HeaderPairs, i, r)[2]>>,
          <<SlotKey("FechaFracPozo", i), Rotated(HeaderPairs, i, r)[1]>> >>
         \o HeaderPairsFrom(i + 1, r)
HeaderOf(fila, r) == MkObj(<< <<Key("Fila"), fila>> >> \o HeaderPairsFrom(1, r))

FilaValues ==
  {Undefined, Null, Str(<<>>), Str(<<" ">>), Str(<<"1">>), Str(<<" ", "2", " ">>),
   NumInt(0), NumInt(3), Bool(TRUE), Obj(<<>>, <<>>)}

\* Stage rows: labelled rows with differing slot values, one row for every
\* kind of Fila value, and records that are not objects.
RowSet ==
  {RowOf(Str(<<"1">>), 0), RowOf(Str(<<"1">>), 4), RowOf(Str(<<" ", "2", " ">>), 2)}
    \cup {RowOf(f, 0) : f \in FilaValues \ {Str(<<"1">>), Str(<<" ", "2", " ">>)}}
    \cup {Null, Str(<<"a", "b", "c">>)}

\* The records at index 0 (header) and index 1 (reserved; the stage loop
\* never reads it), as pairs.
HeadSet ==
  { <<HeaderOf(Str(<<"H">>), 0), RowOf(Str(<<"1">>), 0)>>,
    <<HeaderOf(Str(<<"H">>), 3), RowOf(NumInt(3), 0)>>,
    <<HeaderOf(Undefined, 6), RowOf(Str(<<"1">>), 4)>>,
    <<Null, Null>> }

PayloadOf(items) ==
  Obj(<<Key("items"), Key("lastUpdate")>>, <<Arr(items), Str(<<"2", "0", "2", "4">>)>>)

\* Payloads without a usable items array.
EmptyPayloads ==
  {Null, Undefined, NumInt(5),
   Obj(<<Key("lastUpdate")>>, <<Str(<<"2", "0", "2", "4">>)>>),
   Obj(<<Key("items")>>, <<Str(<<"a", "b", "c">>)>>),
   Obj(<<Key("items")>>, <<Obj(<<>>, <<>>)>>),
   PayloadOf(<<>>)}

FeedPayloads ==
  {PayloadOf(<<hq[1]>>) : hq \in HeadSet}
    \cup {PayloadOf(hq \o rows) :
            hq \in HeadSet,
            rows \in UNION {[1..n -> RowSet] : n \in 0..MaxRows}}

Payloads == EmptyPayloads \cup FeedPayloads

\* Number of polls handled in a run.
MaxPolls == 3

\* The payloads successive polls return: a feed, the feed with a changed
\* value, with a changed lastUpdate, with its keys in another order, with an
\* added key; a feed whose stage row makes the normaliser throw; an empty
\* feed, the empty feed with a wells key; and the JSON text null.
FeedA == <<HeaderOf(Str(<<"H">>), 0), RowOf(Str(<<"1">>), 0), RowOf(Str(<<"1">>), 0)>>
PollPayloads ==
  {PayloadOf(FeedA),
   PayloadOf(<<FeedA[1], FeedA[2], RowOf(Str(<<"1">>), 4)>>),
   Obj(<<Key("items"), Key("lastUpdate")>>, <<Arr(FeedA), Str(<<"2", "0", "2", "5">>)>>),
   Obj(<<Key("lastUpdate"), Key("items")>>, <<Str(<<"2", "0", "2", "4">>), Arr(FeedA)>>),
   Obj(<<Key("items"), Key("lastUpdate"), Key("stock")>>,
       <<Arr(FeedA), Str(<<"2", "0", "2", "4">>), Arr(<<>>)>>),
   PayloadOf(<<FeedA[1], FeedA[2], RowOf(NumInt(3), 0)>>),
   PayloadOf(<<>>),
   Obj(<<Key("items"), Key("lastUpdate"), Key("wells")>>,
       <<Arr(<<>>), Str(<<"2", "0", "2", "4">>), Arr(<<>>)>>),
   Null}


-----------------------------------------------------------------------------
(* JSON.stringify *)

\* The host's getTimezoneOffset(): minutes to add to local time to get UTC.
TimezoneOffset == 180

\* date.toISOString(): the UTC components, YYYY-MM-DDTHH:mm:ss.sssZ.  The
\* dates of the model are built from whole seconds.
toISOString(dt) ==
  LET u == NewDate(NumInt(dt.y), NumInt(dt.mo), NumInt(dt.d), NumInt(dt.h),
                   NumInt(dt.mi + TimezoneOffset), NumInt(dt.s))
      yy == NatChars(u.y)
  IN [n \in 1..(4 - Len(yy)) |-> "0"] \o yy \o <<"-">> \o TwoDigits(u.mo + 1)
       \o <<"-">> \o TwoDigits(u.d) \o <<"T">> \o TwoDigits(u.h) \o <<":">>
       \o TwoDigits(u.mi) \o <<":">> \o TwoDigits(u.s)
       \o <<".", "0", "0", "0", "Z">>

KeyTokens(key) ==
  <<"\"", key[1]>> \o (IF key[2] = 0 THEN <<>> ELSE NatChars(key[2]))
    \o <<"\"">>

\* JSON.stringify(v) as the sequence of the text's tokens (punctuation,
\* property names, characters): properties in insertion order, undefined
\* properties left out, NaN / Infinity / invalid dates / undefined array
\* elements as null, a Date as its ISO string.
RECURSIVE Stringify(_)
RECURSIVE StringifyEls(_)
RECURSIVE StringifyProps(_, _, _)
Stringify(v) ==
  CASE v.t \in {"null", "undefined"} -> <<"null">>
    [] v.t = "boolean" -> IF v.b THEN <<"true">> ELSE <<"false">>
    [] v.t = "number" -> IF IsFinite(v) THEN NumToChars(v) ELSE <<"null">>
    [] v.t = "string" -> <<"\"">> \o v.s \o <<"\"">>
    [] v.t = "date" -> IF v.valid THEN <<"\"">> \o toISOString(v) \o <<"\"">>
                       ELSE <<"null">>
    [] v.t = "array" -> <<"[">> \o StringifyEls(v.els) \o <<"]">>
    [] OTHER -> <<"{">> \o StringifyProps(v.keys, v.vals, TRUE) \o <<"}">>
StringifyEls(els) ==
  IF els = <<>> THEN <<>>
  ELSE Stringify(Head(els))
         \o (IF Len(els) > 1 THEN <<",">> \o StringifyEls(Tail(els)) ELSE <<>>)
StringifyProps(keys, vals, first) ==
  IF keys = <<>> THEN <<>>
  ELSE IF Head(vals).t = "undefined"
  THEN StringifyProps(Tail(keys), Tail(vals), first)
  ELSE (IF first THEN <<>> ELSE <<",">>)
         \o KeyTokens(Head(keys)) \o <<":">> \o Stringify(Head(vals))
         \o StringifyProps(Tail(keys), Tail(vals), FALSE)

-----------------------------------------------------------------------------
(* The document: what the renderers of updateDashboard build *)

\* Line 20.
defaultWellColors ==
  <<Str(<<"#", "f", "f", "d", "8", "3", "a">>),
    Str(<<"#", "7", "a", "d", "3", "9", "a">>),
    Str(<<"#", "7", "4", "b", "3", "f", "f">>),
    Str(<<"#", "f", "f", "7", "b", "7", "b">>),
    Str(<<"#", "f", "f", "f", "f", "f", "f">>),
    Str(<<"#", "c", "c", "c", "c", "c", "c">>)>>

\* array.includes(v): an element of the same type and value.
Includes(els, v) == \E n \in 1..Len(els) : els[n] = v
\* array.filter(x => x !== v).
Without(els, v) == SelectSeq(els, LAMBDA x : x # v)

\* localStorage as the record of the five keys the page uses (null: no
\* item).  setItem stores the text; JSON.stringify gives the text of a list.
SetItem(store, key, value) == [store EXCEPT ![key] = value]
JSONText(els) == Str(Stringify(Arr(els)))

\* data.wells and the stages of a well, as the renderers read them.
DataWells(d) == GetProp(d, Key("wells"))
NoWells(d) == ~Truthy(d) \/ ~Truthy(DataWells(d))
NoWellsArray(d) == ~Truthy(d) \/ ~IsArray(DataWells(d))
WellNameOf(well) == GetProp(well, Key("name"))
Etapas(well) == GetProp(well, Key("etapas")).els

\* Lines 707-708 and 711-712: the first match of /(\d{1,2}:\d{2})/ in a
\* text, or the text itself when there is none.
TimeMatchLen(cs, p) ==
  IF /\ p + 4 <= Len(cs)
     /\ IsDigit(cs[p]) /\ IsDigit(cs[p + 1]) /\ cs[p + 2] = ":"
     /\ IsDigit(cs[p + 3]) /\ IsDigit(cs[p + 4])
  THEN 5
  ELSE IF /\ p + 3 <= Len(cs)
          /\ IsDigit(cs[p]) /\ cs[p + 1] = ":"
          /\ IsDigit(cs[p + 2]) /\ IsDigit(cs[p + 3])
  THEN 4
  ELSE 0
TimeMatch(cs) ==
  LET hits == {p \in 1..Len(cs) : TimeMatchLen(cs, p) > 0}
  IN IF hits = {} THEN cs
     ELSE LET p == CHOOSE q \in hits : \A r \in hits : q <= r
          IN SubSeq(cs, p, p + TimeMatchLen(cs, p) - 1)

\* Lines 697-714: the date part and the time part shown for a fechaHora.
DateTimeParts(fechaStr) ==
  IF fechaStr = <<>> THEN [datePart |-> <<>>, timePart |-> <<>>]
  ELSE IF \E n \in 1..Len(fechaStr) : fechaStr[n] = ","
  THEN LET c == CHOOSE n \in 1..Len(fechaStr) :
                  /\ fechaStr[n] = ","
                  /\ \A m \in 1..(n - 1) : fechaStr[m] # ","
       IN [datePart |-> Trim(SubSeq(fechaStr, 1, c - 1)),
           timePart |-> TimeMatch(Trim(SubSeq(fechaStr, c + 1, Len(fechaStr))))]
  ELSE [datePart |-> <<>>, timePart |-> TimeMatch(fechaStr)]

\* The characters U+2014 and U+00F3, each one element of a string.
EmDash == "u2014"
OAcute == "u00f3"

\* Lines 715-723: the text of the depth block, a dash when there is no
\* depth.
TaponText(etapaObj) ==
  LET p == GetProp(etapaObj, Key("profundidad"))
  IN IF p.t \in {"null", "undefined"} \/ IsNaN(p) THEN <<EmDash>>
     ELSE ToChars(p) \o <<" ", "m">>

\* Lines 695-727: textContent of the first cell of a well (date, time and
\* depth blocks, in that order).
CombinedText(etapaObj) ==
  LET fh == GetProp(etapaObj, Key("fechaHora"))
      parts == DateTimeParts(IF Truthy(fh) THEN ToChars(fh) ELSE <<>>)
  IN parts.datePart \o parts.timePart \o TaponText(etapaObj)

\* Lines 716 and 729-730: textContent of the second cell of a well.
FracText(etapaObj) ==
  LET f == GetProp(etapaObj, Key("fechaFractura"))
  IN IF Truthy(f) THEN ToChars(f) ELSE <<>>

\* Lines 680-691: the label of a row, from the first well that has one.
EtapaLabel(wells, rowIndex) ==
  LET labelled == {w \in 1..Len(wells) :
                     /\ rowIndex <= Len(Etapas(wells[w]))
                     /\ Truthy(GetProp(Etapas(wells[w])[rowIndex], Key("etapa")))}
  IN IF labelled = {} THEN <<>>
     ELSE ToChars(GetProp(Etapas(wells[CHOOSE w \in labelled :
                                           \A v \in labelled : w <= v])[rowIndex],
                          Key("etapa")))

\* Lines 695-733: the cells of a well in a row.  Every well of a feed has
\* one stage per row, so etapaObj is an object.
WellCells(wells, w, rowIndex) ==
  <<CombinedText(Etapas(wells[w])[rowIndex]),
    FracText(Etapas(wells[w])[rowIndex])>>
RECURSIVE RowCells(_, _, _)
RowCells(wells, w, rowIndex) ==
  IF w > Len(wells) THEN <<>>
  ELSE WellCells(wells, w, rowIndex) \o RowCells(wells, w + 1, rowIndex)

\* Line 631.
RECURSIVE MaxRowsOf(_)
MaxRowsOf(wells) ==
  IF wells = <<>> THEN 0
  ELSE LET rest == MaxRowsOf(Tail(wells))
           mine == Len(Etapas(Head(wells)))
       IN IF mine > rest THEN mine ELSE rest

\* Lines 749-768: String(hasAnyValue).
HasAnyValue(wells) ==
  \E w \in 1..Len(wells) : \E n \in 1..Len(Etapas(wells[w])) :
    LET etapaObj == Etapas(wells[w])[n]
        fh == GetProp(etapaObj, Key("fechaHora"))
        ff == GetProp(etapaObj, Key("fechaFractura"))
    IN \/ Truthy(fh) /\ Trim(ToChars(fh)) # <<>>
       \/ IsNum(GetProp(etapaObj, Key("profundidad")))
       \/ Truthy(ff) /\ \E k \in 1..Len(ToChars(ff)) : ToChars(ff)[k] = "/"

\* Lines 1412-1430: the header colour of well index idx (0-based).
HeaderColor(colors, idx) ==
  IF idx + 1 <= Len(colors) /\ Truthy(colors[idx + 1]) THEN colors[idx + 1]
  ELSE IF idx + 1 <= Len(defaultWellColors) THEN defaultWellColors[idx + 1]
  ELSE Str(<<"#", "c", "c", "c">>)
applyWellColors(table, colors) ==
  IF ~table.present THEN table
  ELSE [table EXCEPT !.colors =
          Tuple([n \in 1..Len(table.names) |-> HeaderColor(colors, n - 1)])]

\* Lines 625-773: the content of #tables-wrapper after renderTables(data):
\* no container, or the one container el with its unified table.  names are
\* the data-well-name attributes of the header cells (one per well), rows the
\* textContent of each body row's cells (cell 0 is the stage label), hidden
\* the names whose cells have display none.  A new table starts at the top,
\* with no lastUserScroll and no scroll event waiting.
NoTable == [present |-> FALSE]
renderTables(d, el) ==
  IF NoWells(d) THEN NoTable
  ELSE LET wells == DataWells(d).els
       IN [present |-> TRUE,
           el |-> el,
           names |-> Tuple([w \in 1..Len(wells) |->
                              ToChars(WellNameOf(wells[w]))]),
           rows |-> Tuple([r \in 1..MaxRowsOf(wells) |->
                             <<EtapaLabel(wells, r)>> \o RowCells(wells, 1, r)]),
           hasData |-> IF HasAnyValue(wells) THEN "true" ELSE "false",
           hidden |-> {},
           colors |-> <<>>,
           display |-> "",
           scrollTop |-> 0,
           lastUserScroll |-> "",
           scrollEvent |-> FALSE]

\* Lines 529-573: the checkboxes of #modalWellControls.  dataset.wellName
\* holds the name as a string; checked comes from the name itself.
renderModalControls(d, hidden) ==
  IF NoWells(d) THEN <<>>
  ELSE LET wells == DataWells(d).els
       IN Tuple([w \in 1..Len(wells) |->
                   [wellName |-> ToChars(WellNameOf(wells[w])),
                    checked |-> ~Includes(hidden, WellNameOf(wells[w]))]])

\* data.stock when it is an array (lines 584 and 927); the items of the
\* model are objects.
StockItems(d) ==
  IF Truthy(d) /\ IsArray(GetProp(d, Key("stock")))
  THEN GetProp(d, Key("stock")).els
  ELSE <<>>

\* Lines 580-617: the checkboxes of #modalStockControls.
renderStockControls(d, hiddenStock) ==
  LET items == StockItems(d)
  IN Tuple([n \in 1..Len(items) |->
              [itemName |-> ToChars(GetProp(items[n], Key("ITEM"))),
               checked |-> ~Includes(hiddenStock, GetProp(items[n], Key("ITEM")))]])

\* Lines 929-930.
StockName(item) ==
  LET v == GetProp(item, Key("ITEM"))
  IN IF Truthy(v) THEN Trim(ToChars(v)) ELSE <<>>
StockRaw(item) ==
  LET v == GetProp(item, Key("STOCK"))
  IN IF v.t \in {"undefined", "null"} THEN <<>> ELSE Trim(ToChars(v))
NotAvailable(cs) == cs = <<>> \/ ToUpperCase(cs) = <<"N", "/", "A">>

\* Lines 931-933: whether updateFooter builds the card of a stock item.
StockCardBuilt(item, hiddenStock) ==
  /\ ~NotAvailable(StockName(item))
  /\ ~NotAvailable(StockRaw(item))
  /\ ~Includes(hiddenStock, Str(StockName(item)))

\* Lines 920-991: the cards of #kpi-container, each by its title (the value
\* shown on a card, lines 944-966, is not kept): one per stock item that
\* passes the tests, then the update card when data.lastUpdate is truthy.
updateFooter(d, hiddenStock) ==
  LET built == SelectSeq(StockItems(d),
                         LAMBDA item : StockCardBuilt(item, hiddenStock))
  IN Tuple([n \in 1..Len(built) |-> [title |-> StockName(built[n])]])
       \o (IF Truthy(d) /\ Truthy(GetProp(d, Key("lastUpdate")))
           THEN <<[title |-> <<"A", "c", "t", "u", "a", "l", "i", "z", "a", "c", "i", OAcute, "n">>]>>
           ELSE <<>>)

\* Lines 1439-1465: the values of the colour inputs of #modalColorControls.
renderColorControls(d, colors) ==
  IF NoWellsArray(d) THEN <<>>
  ELSE Tuple([n \in 1..Len(DataWells(d).els) |->
                IF n <= Len(colors) /\ Truthy(colors[n]) THEN colors[n]
                ELSE IF n <= Len(defaultWellColors) THEN defaultWellColors[n]
                ELSE Undefined])

\* Lines 1365: hiddenWellNames.filter(name => validNames.includes(name)).
ValidNames(d) ==
  Tuple([w \in 1..Len(DataWells(d).els) |-> WellNameOf(DataWells(d).els[w])])
PrunedHidden_KeepsAll(d, hidden) == hidden
PrunedHidden(d, hidden) ==
  LET validNames == ValidNames(d)
  IN SelectSeq(hidden, LAMBDA name : Includes(validNames, name))

\* Lines 1372-1380: the names whose cells get display none.
HiddenCells(table, hidden) ==
  IF ~table.present THEN table
  ELSE [table EXCEPT !.hidden =
          {table.names[n] : n \in {m \in 1..Len(table.names) :
                                     Includes(hidden, Str(table.names[m]))}}]
\* Lines 1382-1385: the modal's checkboxes follow the list.
SyncedControls(controls, hidden) ==
  Tuple([n \in 1..Len(controls) |->
           [controls[n] EXCEPT
              !.checked = ~Includes(hidden, Str(controls[n].wellName))]])

-----------------------------------------------------------------------------
(* Scrolling, lines 24-54, 1017-1072 and 1262-1326 *)

\* The layout of the unified table in pixels: the height of a body row, of
\* the two header rows together, and of the visible part of the scroller
\* (adjustTableHeight, lines 1334-1347, sets its maximum).
RowHeight == 3
HeaderHeight == 2
ClientHeight == 4

\* Line 369: scrollToLastWithData(7); line 1322: the 8 px above the row.
LastRowsShown == 7
RowGap == 8
\* Line 1049: the pause after a scroll event; line 1057: the period of the
\* interval; lines 1052-1053: the snap distance and the step.
UserScrollPause == 3000
TickPeriod == 50
SnapDistance == 2
ScrollStep == 1

Max0(n) == IF n > 0 THEN n ELSE 0
\* row.offsetTop of body row r (from 1), measured from the top of the table.
OffsetTop(r) == HeaderHeight + (r - 1) * RowHeight
\* The largest scrollTop the scroller accepts.
ScrollRange(table) ==
  Max0(HeaderHeight + Len(table.rows) * RowHeight - ClientHeight)

\* element.scrollTop = v and scrollTo({top: v}): the position is clamped to
\* the scroll range, and a change of position queues a scroll event on the
\* element, whatever caused it.
SetScrollTop(table, v) ==
  LET c == IF v < 0 THEN 0
           ELSE IF v > ScrollRange(table) THEN ScrollRange(table) ELSE v
  IN [table EXCEPT !.scrollTop = c,
                   !.scrollEvent = @ \/ c # table.scrollTop]

\* Lines 38-45: a cell that makes its row the target: index i (cell 0 is the
\* label) with i % 3 in {1, 2} and a text that is not blank.
CountedCell(cells, i) ==
  /\ i % 3 = 1 \/ i % 3 = 2
  /\ cells[i + 1] # <<>>
  /\ Trim(cells[i + 1]) # <<>>
\* Lines 35-46: the target row (0: none): the last row with a counted cell.
TargetRow(rows) ==
  LET hits == {r \in 1..Len(rows) :
                 \E i \in 1..(Len(rows[r]) - 1) : CountedCell(rows[r], i)}
  IN IF hits = {} THEN 0 ELSE CHOOSE r \in hits : \A q \in hits : q <= r
\* Lines 31-54.
getLastDataScroll(table) ==
  LET targetRow == TargetRow(table.rows)
  IN IF targetRow = 0 THEN 0
     ELSE Max0(OffsetTop(targetRow) + RowHeight - ClientHeight)

\* Lines 1266-1277.
scrollTablesToBottom(table) ==
  IF table.present /\ table.hasData = "true" /\ getLastDataScroll(table) > 0
  THEN SetScrollTop(table, getLastDataScroll(table))
  ELSE table

\* Lines 1286-1326: the rows with some cell that is not blank; the row n
\* places before the end of them (the first when there are fewer) goes RowGap
\* below the header.  The smooth scroll is taken at its end position.
scrollToLastWithData(table, n) ==
  IF ~table.present THEN table
  ELSE LET idx == SelectSeq(Tuple([r \in 1..Len(table.rows) |-> r]),
                            LAMBDA r : \E c \in 1..Len(table.rows[r]) :
                                         Trim(table.rows[r][c]) # <<>>)
       IN IF idx = <<>> THEN table
          ELSE SetScrollTop(table,
                 Max0(OffsetTop(idx[Max0(Len(idx) - n) + 1])
                        - HeaderHeight - RowGap))

\* setInterval and addEventListener hand out what identifies the timer and
\* the listener: here the least number not in use.
FreeId(used) == CHOOSE n \in 1..(Cardinality(used) + 1) : n \notin used

\* The scroller state the two functions below work on: the table of the
\* document, autoScrollData (line 16) as the set of its entries, the running
\* intervals and the registered scroll listeners.
\* Lines 1066-1072.
disableAutoScroll(sc) ==
  [sc EXCEPT
     !.intervals = {i \in @ : \A e \in sc.data : e.intervalId # i.id},
     !.listeners = {l \in @ : \A e \in sc.data :
                      ~(e.el = l.el /\ e.scrollListener = l.id)},
     !.data = {}]

\* Lines 1026-1059 for the container of the document, at time t.
StartAutoScroll(sc, t) ==
  IF ~sc.table.present \/ sc.table.hasData # "true" THEN sc
  ELSE LET Started(listener, intervalId, table) ==
             [table |-> table,
              listeners |-> sc.listeners
                              \cup {[el |-> sc.table.el, id |-> listener]},
              intervals |-> sc.intervals
                              \cup {[id |-> intervalId, el |-> sc.table.el,
                                     due |-> t + TickPeriod]},
              data |-> {e \in sc.data : e.el # sc.table.el}
                         \cup {[el |-> sc.table.el, intervalId |-> intervalId,
                                scrollListener |-> listener]}]
           Place(marked) ==
             Eval(LAMBDA initialTarget :
                    Started(FreeId({l.id : l \in sc.listeners}),
                            FreeId({i.id : i \in sc.intervals}),
                            IF initialTarget > 0
                            THEN SetScrollTop(marked, initialTarget)
                            ELSE marked),
                  getLastDataScroll(marked))
       IN Eval(Place, [sc.table EXCEPT !.lastUserScroll = <<"0">>])

\* A variant of enableAutoScroll that keeps what is already running.
enableAutoScroll_KeepsRunning(sc, t) == StartAutoScroll(sc, t)
\* Lines 1023-1060.
enableAutoScroll(sc, t) ==
  Eval(LAMBDA cleared : StartAutoScroll(cleared, t), disableAutoScroll(sc))

\* Lines 1044-1057: the callback of an interval on its table, at time t.
TickScroll(table, t) ==
  IF table.display = "none" THEN table
  ELSE LET last == parseInt(IF table.lastUserScroll # <<>>
                            THEN table.lastUserScroll ELSE <<"0">>)
           maxScroll == getLastDataScroll(table)
       IN IF ~IsNaN(last) /\ t - IntOf(last) < UserScrollPause THEN table
          ELSE IF maxScroll <= 0 THEN table
          ELSE IF table.scrollTop < maxScroll - SnapDistance
          THEN SetScrollTop(table, table.scrollTop + ScrollStep)
          ELSE SetScrollTop(table, maxScroll)

-----------------------------------------------------------------------------
(* updateDashboard on the document, lines 338-377 *)

DarkText == Str(<<"d", "a", "r", "k">>)
LightText == Str(<<"l", "i", "g", "h", "t">>)
TrueText == Str(<<"t", "r", "u", "e">>)
FalseText == Str(<<"f", "a", "l", "s", "e">>)

\* Lines 338-377 on the argument d as line 337 left it, for a table element
\* el, at time t: what the pass leaves in the module state and the document.
\* Line 347 (applyHiddenWellState) returns at once without a wells array.
RenderPass(d, el, t) ==
  LET Finish(hidden, store, toggle, sc) ==
        [hiddenWellNames |-> hidden,
         localStorage |-> store,
         autoScrollToggle |-> toggle,
         tablesWrapper |-> sc.table,
         autoScrollData |-> sc.data,
         intervals |-> sc.intervals,
         scrollListeners |-> sc.listeners,
         kpiContainer |-> updateFooter(d, hiddenStockItems),
         modalWellControls |->
           IF NoWellsArray(d) THEN renderModalControls(d, hiddenWellNames)
           ELSE Eval(LAMBDA controls : SyncedControls(controls, hidden),
                     renderModalControls(d, hiddenWellNames)),
         modalStockControls |-> renderStockControls(d, hiddenStockItems),
         modalColorControls |-> renderColorControls(d, wellColors)]
      Scroll(hidden, store, toggle, table) ==
        IF toggle
        THEN Eval(LAMBDA placed :
                    Eval(LAMBDA sc : Finish(hidden, store, toggle, sc),
                         enableAutoScroll(
                           [table |-> placed, data |-> autoScrollData,
                            intervals |-> intervals,
                            listeners |-> scrollListeners], t)),
                  scrollToLastWithData(table, LastRowsShown))
        ELSE Eval(LAMBDA placed :
                    Eval(LAMBDA sc : Finish(hidden, store, toggle, sc),
                         disableAutoScroll(
                           [table |-> placed, data |-> autoScrollData,
                            intervals |-> intervals,
                            listeners |-> scrollListeners])),
                  scrollTablesToBottom(table))
      Colour(hidden, store, toggle, table) ==
        Eval(LAMBDA coloured : Scroll(hidden, store, toggle, coloured),
             applyWellColors(table, wellColors))
      Tables(hidden, store, toggle) ==
        Eval(LAMBDA fresh :
               IF NoWellsArray(d) THEN Colour(hidden, store, toggle, fresh)
               ELSE Eval(LAMBDA table : Colour(hidden, store, toggle, table),
                         HiddenCells(fresh, hidden)),
             renderTables(d, el))
      Stored(hidden) ==
        Eval(LAMBDA store :
               Tables(hidden, store,
                      IF store.autoScroll = FalseText THEN FALSE
                      ELSE IF store.autoScroll = TrueText THEN TRUE
                      ELSE autoScrollToggle),
             IF NoWellsArray(d) THEN localStorage
             ELSE SetItem(localStorage, "hiddenWellNames", JSONText(hidden)))
  IN Eval(Stored,
          IF NoWellsArray(d) THEN hiddenWellNames
          ELSE PrunedHidden(d, hiddenWellNames))

\* The state a completed pass leaves.
Rendered(d) ==
  \E r \in {RenderPass(d, polls + 1, now)} :
    /\ hiddenWellNames' = r.hiddenWellNames
    /\ localStorage' = r.localStorage
    /\ autoScrollToggle' = r.autoScrollToggle
    /\ tablesWrapper' = r.tablesWrapper
    /\ autoScrollData' = r.autoScrollData
    /\ intervals' = r.intervals
    /\ scrollListeners' = r.scrollListeners
    /\ kpiContainer' = r.kpiContainer
    /\ modalWellControls' = r.modalWellControls
    /\ modalStockControls' = r.modalStockControls
    /\ modalColorControls' = r.modalColorControls
    /\ UNCHANGED <<hiddenStockItems, wellColors, modalAutoScrollToggle,
                   bodyDark>>

-----------------------------------------------------------------------------
(* fetchData and updateDashboard, lines 295-378 *)

\* The wells of a result as the JavaScript array held in data.wells.
StageObject(st) ==
  Obj(<<Key("etapa"), Key("fechaHora"), Key("profundidad"),
        Key("fechaFractura"), Key("fechaFracturaDate")>>,
      <<st.etapa, st.fechaHora, st.profundidad, st.fechaFractura,
        st.fechaFracturaDate>>)
WellObject(well) ==
  Obj(<<Key("name"), Key("etapas")>>,
      <<well.name,
        Arr(Tuple([n \in 1..Len(well.etapas) |->
                     StageObject(well.etapas[n])]))>>)
WellsArray(wells) ==
  Arr(Tuple([n \in 1..Len(wells) |-> WellObject(wells[n])]))

\* updateDashboard(data), lines 327-378: [threw, data], data being the
\* argument object after the call.  parseWellsFromData may throw (line 335);
\* `data.wells = structured.wells` (line 337) throws on null, adds or
\* replaces the property of an object and does nothing on a primitive.  The
\* rendering calls that follow work on the document and end the pass.
updateDashboard(d) ==
  LET Rest(structured) ==
        IF structured.threw \/ d.t \in {"null", "undefined"}
        THEN [threw |-> TRUE, data |-> d]
        ELSE IF d.t = "object"
        THEN [threw |-> FALSE,
              data |-> SetProp(d, Key("wells"), WellsArray(structured.wells))]
        ELSE [threw |-> FALSE, data |-> d]
  IN Eval(Rest, parseWellsFromData(d))

\* Line 306: the gate of the success handler.
PayloadChanged(isUpdate, d) ==
  \/ ~isUpdate
  \/ ~Truthy(currentData)
  \/ Stringify(d) # Stringify(currentData)

\* Lines 305-310 (and 311-319 when updateDashboard throws): the handling of
\* one successful response carrying the payload d.  currentData is the
\* object d itself, so it shows what updateDashboard did to it.
HandleResponse(isUpdate, d) ==
  /\ \E changed \in {PayloadChanged(isUpdate, d)} :
       /\ poll' = [kind |-> IF isUpdate THEN "update" ELSE "initial",
                   payload |-> d, prev |-> lastPayload, invoked |-> changed]
       /\ IF changed
          THEN \E pass \in {updateDashboard(d)} :
                 /\ currentData' = pass.data
                 /\ errorHidden' = ~pass.threw
                 /\ renders' = renders + (IF pass.threw THEN 0 ELSE 1)
                 /\ ui' = [kind |-> "poll", rendered |-> ~pass.threw, after |-> ui.kind]
                 /\ IF pass.threw THEN UNCHANGED docVars
                    ELSE Rendered(pass.data)
          ELSE /\ UNCHANGED <<currentData, errorHidden, renders, docVars>>
               /\ ui' = [kind |-> "poll", rendered |-> FALSE, after |-> ui.kind]
  /\ lastPayload' = [set |-> TRUE, v |-> d]
  /\ polls' = polls + 1
  /\ UNCHANGED <<parseVars, helperVars, userVars>>

\* Line 279: the response to the initial fetchData().
InitialLoad ==
  /\ polls = 0
  /\ \E d \in PollPayloads : HandleResponse(FALSE, d)
  /\ UNCHANGED raceVars

\* Line 281: the response to a fetchData(true) of the 60 s interval.
UpdatePoll ==
  /\ polls > 0
  /\ polls < MaxPolls
  /\ \E d \in PollPayloads : HandleResponse(TRUE, d)
  /\ UNCHANGED raceVars

\* A variant of PollFails that drops the snapshot when a request fails.
PollFails_DropsSnapshot ==
  /\ polls < MaxPolls
  /\ poll' = [kind |-> "failed", invoked |-> FALSE]
  /\ errorHidden' = FALSE
  /\ polls' = polls + 1
  /\ currentData' = Null
  /\ ui' = [kind |-> "poll", rendered |-> FALSE, after |-> ui.kind]
  /\ UNCHANGED <<lastPayload, renders, parseVars, helperVars, docVars,
                 userVars, raceVars>>

\* Lines 311-319: a request that fails (network error or a body that is not
\* JSON) shows the error message.
PollFails ==
  /\ polls < MaxPolls
  /\ poll' = [kind |-> "failed", invoked |-> FALSE]
  /\ errorHidden' = FALSE
  /\ polls' = polls + 1
  /\ ui' = [kind |-> "poll", rendered |-> FALSE, after |-> ui.kind]
  /\ UNCHANGED <<currentData, lastPayload, renders, parseVars, helperVars,
                 docVars, userVars, raceVars>>

\* Number of calls of parseWellsFromData in a run.
MaxCalls == 2

\* The payloads of the calls after the first.
LaterPayloads ==
  {PayloadOf(<<FeedA[1], FeedA[2], RowOf(Str(<<" ", "2", " ">>), 2)>>),
   PayloadOf(<<>>)}

\* Line 335: updateDashboard calls parseWellsFromData again, on the payload
\* of a later pass.  The locals of the previous call are out of reach; the
\* new call's `result` is made at its entry (line 1149).
ParseCall ==
  /\ pc \in {"returned", "threw"}
  /\ calls < MaxCalls
  /\ data' \in LaterPayloads
  /\ pc' = "entry"
  /\ j' = 0
  /\ calls' = calls + 1
  /\ UNCHANGED <<result, pollVars, helperVars, pageVars>>

-----------------------------------------------------------------------------
(* The date helpers on a host *)

\* A host's timezone: getTimezoneOffset() in standard time (the minutes to
\* add to local time to get UTC) and whether the host observes daylight
\* saving time, its clocks one hour ahead from 02:00 standard time of
\* 10 March 2024 to 02:00 daylight time of 3 November 2024.
Hosts ==
  {[std |-> 180, dst |-> FALSE], [std |-> 0, dst |-> FALSE],
   [std |-> 0 - 330, dst |-> FALSE], [std |-> 300, dst |-> TRUE]}

\* A time: a day number (days from 1970-01-01) and a second of that day.
TimeAdd(t, secs) ==
  [day |-> t.day + (t.sod + secs) \div 86400, sod |-> (t.sod + secs) % 86400]
TimeBefore(a, b) == a.day < b.day \/ (a.day = b.day /\ a.sod < b.sod)
DstStart == [day |-> DaysFromCivil(2024, 3, 10), sod |-> 7200]
DstEnd == [day |-> DaysFromCivil(2024, 11, 3), sod |-> 7200]

\* The offset in force at the UTC time t (LocalTZA(t, true)).
OffsetAtUTC(host, t) ==
  IF /\ host.dst
     /\ ~TimeBefore(TimeAdd(t, 0 - host.std * 60), DstStart)
     /\ TimeBefore(TimeAdd(t, 3600 - host.std * 60), DstEnd)
  THEN host.std - 60 ELSE host.std
\* The offset a wall-clock reading is taken with (LocalTZA(t, false)): a
\* reading the clocks skip is taken with the offset before the transition,
\* a repeated one with the earlier of its two times.
OffsetAtLocal(host, wall) ==
  IF /\ host.dst
     /\ ~TimeBefore(wall, TimeAdd(DstStart, 3600))
     /\ TimeBefore(wall, DstEnd)
  THEN host.std - 60 ELSE host.std

\* Lines 1102 and 1137: the Date `new Date(y, m, d, h, mi, s)` makes on a
\* host from the wall-clock components dt, as the local getters and
\* toLocale*String read it back on that host.
LocalComponents(host, dt) ==
  IF dt.t # "date" \/ ~dt.valid THEN dt
  ELSE Eval(LAMBDA wall :
         Eval(LAMBDA t :
           Eval(LAMBDA loc :
             Eval(LAMBDA c :
               DateOf(c.y, c.m - 1, c.d, loc.sod \div 3600,
                      (loc.sod % 3600) \div 60, loc.sod % 60),
               CivilFromDays(loc.day)),
             TimeAdd(t, 0 - OffsetAtUTC(host, t) * 60)),
           TimeAdd(wall, OffsetAtLocal(host, wall) * 60)),
         [day |-> DaysFromCivil(dt.y, dt.mo + 1, dt.d),
          sod |-> dt.h * 3600 + dt.mi * 60 + dt.s])

\* Arguments of excelSerialToDate.
HelperSerials ==
  {NumInt(0),
   NumInt(1),
   NumInt(59),
   NumInt(61),
   NumInt(25569),
   NumInt(45292),
   Str(<<"4", "5", "2", "9", "2">>),
   Num(FALSE, 45292, <<"7", "5">>),
   Num(FALSE, 45361, <<"0", "9", "3", "7", "5">>),
   Num(FALSE, 25568, <<"5">>),
   NumInt(0 - 660000),
   Str(<<"I", "n", "f", "i", "n", "i", "t", "y">>),
   Str(<<"a", "b", "c">>),
   Null}

\* Arguments of parseDateTimeString.
HelperTexts ==
  {Str(<<"0", "5", "/", "0", "3", "/", "2", "0", "2", "4", " ", "1", "4", ":", "3", "0">>),
   Str(<<"0", "5", "/", "0", "3", "/", "2", "0", "2", "4">>),
   Str(<<"5", "/", "3", "/", "2", "0", "2", "4", " ", "1", "4", ":", "3", "0", ":", "1", "5">>),
   Str(<<" ", "3", "1", "/", "1", "2", "/", "1", "9", "9", "9", " ", " ", "2", "3", ":", "5", "9", ":", "5", "9", " ">>),
   Str(<<"2", "9", "/", "0", "2", "/", "2", "0", "2", "4", " ", "0", "0", ":", "0", "0">>),
   Str(<<"0", "5", "/", "0", "3", "/", "2", "4">>),
   Str(<<"1", "0", "/", "0", "3", "/", "2", "0", "2", "4", " ", "0", "2", ":", "1", "5">>),
   Str(<<"0", "5", "/", "0", "3", "/", "2", "0", "2", "4", " ", "1", "4">>),
   Str(<<"2", "0", "2", "4", "-", "0", "3", "-", "0", "5">>),
   Str(<<"2", "0", "2", "4", "-", "0", "3", "-", "0", "5", "T", "1", "4", ":", "3", "0", ":", "0", "0">>),
   Str(<<"0", "5", "-", "0", "3", "-", "2", "0", "2", "4">>),
   Str(<<"0", "5", ".", "0", "3", ".", "2", "0", "2", "4">>),
   Str(<<"0", "5", "/", "0", "3">>),
   Str(<<"1", "/", "2", "/", "3", "/", "4">>),
   Str(<<"a", "/", "b", "/", "c">>),
   Str(<<"5", "x", "/", "3", "/", "2", "0", "2", "4">>),
   Str(<<"0", "5", "/", "0", "3", "/", "2", "0", "2", "4", " ", "a", "b", ":", "c", "d">>),
   Str(<<>>),
   Str(<<" ", " ">>),
   NumInt(45292),
   Null,
   Undefined,
   Bool(TRUE)}

\* excelSerialToDate(arg), run on each of the two hosts.
CallExcelSerialToDate ==
  /\ helperCall.fn = "excelSerialToDate"
  /\ ~helperRet.done
  /\ helperRet' =
       [done |-> TRUE,
        dates |-> <<LocalComponents(helperCall.hosts[1],
                                    excelSerialToDate(helperCall.arg)),
                    LocalComponents(helperCall.hosts[2],
                                    excelSerialToDate(helperCall.arg))>>]
  /\ UNCHANGED <<helperCall, parseVars, pollVars, pageVars>>

\* parseDateTimeString(arg), run on each of the two hosts.
CallParseDateTimeString ==
  /\ helperCall.fn = "parseDateTimeString"
  /\ ~helperRet.done
  /\ helperRet' =
       [done |-> TRUE,
        dates |-> <<LocalComponents(helperCall.hosts[1],
                                    parseDateTimeString(helperCall.arg)),
                    LocalComponents(helperCall.hosts[2],
                                    parseDateTimeString(helperCall.arg))>>]
  /\ UNCHANGED <<helperCall, parseVars, pollVars, pageVars>>

-----------------------------------------------------------------------------
(* The payloads shown on the dashboard *)

\* Number of answers handled in a run of the dashboard, and number of
\* answers and user actions together.
MaxPasses == 2
MaxSteps == 4

\* The well checkboxes, the stock checkboxes and the colour inputs the user
\* touches.
UserWells == {1, 2}
UserStock == {1, 3}
UserColors == {1}

\* Headers: the first well named by a number, the second by a text; the
\* second header names another second well.
DashHeader(second) ==
  MkObj(<< <<Key("Fila"), Str(<<"H">>)>>,
           <<SlotKey("FechaFracPozo", 1), NumInt(7)>>,
           <<SlotKey("FechaFracPozo", 2), second>> >>)
\* A stage row with values, and one with a label and no value.
DataRow == RowOf(Str(<<"1">>), 0)
LabelRow == MkObj(<< <<Key("Fila"), Str(<<"2">>)>> >>)
\* Stock items: a name with blanks around it, an item without stock, and a
\* plain one.
StockList ==
  Arr(<< MkObj(<< <<Key("ITEM"), Str(<<" ", "A", "r", "e", "n", "a", " ">>)>>, <<Key("STOCK"), NumInt(5)>> >>),
         MkObj(<< <<Key("ITEM"), Str(<<"A", "g", "u", "a">>)>>, <<Key("STOCK"), Str(<<"N", "/", "A">>)>> >>),
         MkObj(<< <<Key("ITEM"), Str(<<"G", "e", "l">>)>>, <<Key("STOCK"), Str(<<"1", "2">>)>> >>) >>)
DashPayload(items, lastUpdate) ==
  Obj(<<Key("items"), Key("lastUpdate"), Key("stock")>>,
      <<Arr(items), lastUpdate, StockList>>)

\* A feed (the two header rows, a stage with values and a stage with a label
\* only), the feed with another second well, the feed whose only stage has
\* a label and no value, and the JSON text 5.
DashPayloads ==
  {DashPayload(<<DashHeader(Str(<<"A", "1">>)), DataRow, DataRow, LabelRow>>, Str(<<"2", "0", "2", "4">>)),
   DashPayload(<<DashHeader(Str(<<"B", "2">>)), DataRow, DataRow, LabelRow>>, Str(<<"2", "0", "2", "4">>)),
   DashPayload(<<DashHeader(Str(<<"A", "1">>)), DataRow, LabelRow>>, Str(<<"2", "0", "2", "4">>)),
   NumInt(5)}

\* Line 279: the answer to the initial fetchData().
DashLoad ==
  /\ polls = 0
  /\ \E d \in DashPayloads : HandleResponse(FALSE, d)
  /\ UNCHANGED raceVars

\* Line 281: the answer to a fetchData(true) of the 60 s interval.
DashUpdate ==
  /\ polls > 0
  /\ polls < MaxPasses
  /\ user.acts + polls < MaxSteps
  /\ \E d \in DashPayloads : HandleResponse(TRUE, d)
  /\ UNCHANGED raceVars

-----------------------------------------------------------------------------
(* Requests in flight, lines 279-281 and 303-310 *)

\* The payloads the server answers with while requests overlap.
RacePayloads ==
  {PayloadOf(FeedA),
   Obj(<<Key("items"), Key("lastUpdate")>>, <<Arr(FeedA), Str(<<"2", "0", "2", "5">>)>>),
   PayloadOf(<<>>)}

\* Lines 279 and 281: fetchData() when the page loads, then fetchData(true)
\* each time the 60 s timer fires; neither waits for an earlier answer.
IssuePoll ==
  /\ issued < MaxPolls
  /\ issued' = issued + 1
  /\ inFlight' = inFlight \cup {[seq |-> issued + 1, isUpdate |-> issued > 0]}
  /\ UNCHANGED <<shown, parseVars, helperVars, pollVars, docVars, ui, userVars>>

\* Lines 304-310: the answer to one of the requests in flight arrives,
\* whichever was issued first.  shown names the request whose payload line
\* 307 stored, and the request whose payload it replaced.
Deliver ==
  \E req \in inFlight : \E d \in RacePayloads :
    /\ HandleResponse(req.isUpdate, d)
    /\ inFlight' = inFlight \ {req}
    /\ shown' = IF poll'.invoked
                THEN [seq |-> req.seq, replaced |-> shown.seq]
                ELSE shown
    /\ UNCHANGED issued

-----------------------------------------------------------------------------
(* The settings modal and the scroller, lines 145-267, 547-566, 597-610 *)

\* Number of times the user scrolls in a run, and of waits of the clock.
MaxActs == 2
MaxWaits == 4

UserActs(hid) ==
  /\ user.acts + polls < MaxSteps
  /\ user' = [user EXCEPT !.acts = @ + 1, !.hid = hid]

\* The scroller state of the document.
Scroller ==
  [table |-> tablesWrapper, data |-> autoScrollData, intervals |-> intervals,
   listeners |-> scrollListeners]
SetScroller(sc) ==
  /\ tablesWrapper' = sc.table
  /\ autoScrollData' = sc.data
  /\ intervals' = sc.intervals
  /\ scrollListeners' = sc.listeners

\* Lines 547-566: the change event of a checkbox of #modalWellControls.  The
\* name is the string of dataset.wellName; the cells are those whose
\* data-well-name attribute is that string.
WellCheckboxChange ==
  \E k \in 1..Len(modalWellControls) :
    \E hidden \in
        {IF modalWellControls[k].checked
         THEN (IF Includes(hiddenWellNames, Str(modalWellControls[k].wellName))
               THEN hiddenWellNames
               ELSE Append(hiddenWellNames, Str(modalWellControls[k].wellName)))
         ELSE Without(hiddenWellNames, Str(modalWellControls[k].wellName))} :
      /\ k \in UserWells
      /\ hiddenWellNames' = hidden
      /\ localStorage' = SetItem(localStorage, "hiddenWellNames", JSONText(hidden))
      /\ modalWellControls' = [modalWellControls EXCEPT ![k].checked = ~@]
      /\ tablesWrapper' =
           IF ~tablesWrapper.present THEN tablesWrapper
           ELSE [tablesWrapper EXCEPT !.hidden =
                   IF modalWellControls[k].checked
                   THEN @ \cup {n \in {modalWellControls[k].wellName} :
                                  Includes(tablesWrapper.names, n)}
                   ELSE @ \ {modalWellControls[k].wellName}]
      /\ ui' = [kind |-> "wellCheckbox", name |-> modalWellControls[k].wellName,
                checked |-> ~modalWellControls[k].checked]
      /\ UserActs(IF modalWellControls[k].checked
                  THEN user.hid \cup {modalWellControls[k].wellName}
                  ELSE user.hid \ {modalWellControls[k].wellName})
      /\ UNCHANGED <<hiddenStockItems, wellColors, autoScrollToggle,
                     modalAutoScrollToggle, bodyDark, modalStockControls,
                     modalColorControls, kpiContainer, autoScrollData,
                     intervals, scrollListeners, now, raceVars, parseVars,
                     helperVars, pollVars>>

\* Lines 597-610: the change event of a checkbox of #modalStockControls.
StockCheckboxChange ==
  \E k \in (1..Len(modalStockControls)) \cap UserStock :
    \E hidden \in
        {IF modalStockControls[k].checked
         THEN (IF Includes(hiddenStockItems, Str(modalStockControls[k].itemName))
               THEN hiddenStockItems
               ELSE Append(hiddenStockItems, Str(modalStockControls[k].itemName)))
         ELSE Without(hiddenStockItems, Str(modalStockControls[k].itemName))} :
      /\ hiddenStockItems' = hidden
      /\ localStorage' = SetItem(localStorage, "hiddenStockItems", JSONText(hidden))
      /\ modalStockControls' = [modalStockControls EXCEPT ![k].checked = ~@]
      /\ kpiContainer' = updateFooter(currentData, hidden)
      /\ ui' = [kind |-> "stockCheckbox", item |-> k,
                checked |-> ~modalStockControls[k].checked]
      /\ UserActs(user.hid)
      /\ UNCHANGED <<hiddenWellNames, wellColors, autoScrollToggle,
                     modalAutoScrollToggle, bodyDark, tablesWrapper,
                     modalWellControls, modalColorControls, autoScrollData,
                     intervals, scrollListeners, now, raceVars, parseVars,
                     helperVars, pollVars>>

\* Lines 205-213: the change event of #modalAutoScrollToggle.
AutoScrollChange ==
  /\ modalAutoScrollToggle' = ~modalAutoScrollToggle
  /\ autoScrollToggle' = ~modalAutoScrollToggle
  /\ \E sc \in {IF ~modalAutoScrollToggle THEN enableAutoScroll(Scroller, now)
                ELSE disableAutoScroll(Scroller)} : SetScroller(sc)
  /\ localStorage' = SetItem(localStorage, "autoScroll",
                             IF ~modalAutoScrollToggle THEN TrueText
                             ELSE FalseText)
  /\ ui' = [kind |-> "autoScroll", checked |-> ~modalAutoScrollToggle]
  /\ UserActs(user.hid)
  /\ UNCHANGED <<hiddenWellNames, hiddenStockItems, wellColors, bodyDark,
                 modalWellControls, modalStockControls, modalColorControls,
                 kpiContainer, now, raceVars, parseVars, helperVars, pollVars>>

\* Lines 167-177: the change event of #themeToggle.
ThemeChange ==
  /\ bodyDark' = ~bodyDark
  /\ localStorage' = SetItem(localStorage, "theme",
                             IF bodyDark THEN LightText ELSE DarkText)
  /\ ui' = [kind |-> "theme"]
  /\ UserActs(user.hid)
  /\ UNCHANGED <<hiddenWellNames, hiddenStockItems, wellColors,
                 autoScrollToggle, modalAutoScrollToggle, tablesWrapper,
                 modalWellControls, modalStockControls, modalColorControls,
                 kpiContainer, autoScrollData, intervals, scrollListeners,
                 now, raceVars, parseVars, helperVars, pollVars>>

\* The colour the user of the model picks.
PickedColor == Str(<<"#", "0", "0", "0", "0", "0", "0">>)

\* Lines 1456-1460: the input event of a colour input of the modal.
ColorInput ==
  \E idx \in 1..Len(modalColorControls) :
    /\ idx \in UserColors
    /\ wellColors' = [wellColors EXCEPT ![idx] = PickedColor]
    /\ modalColorControls' = [modalColorControls EXCEPT ![idx] = PickedColor]
    /\ localStorage' = SetItem(localStorage, "wellColors", JSONText(wellColors'))
    /\ tablesWrapper' = applyWellColors(tablesWrapper, wellColors')
    /\ ui' = [kind |-> "color", idx |-> idx]
    /\ UserActs(user.hid)
    /\ UNCHANGED <<hiddenWellNames, hiddenStockItems, autoScrollToggle,
                   modalAutoScrollToggle, bodyDark, modalWellControls,
                   modalStockControls, kpiContainer, autoScrollData,
                   intervals, scrollListeners, now, raceVars, parseVars,
                   helperVars, pollVars>>

\* A variant of ResetSettings that leaves the list of hidden wells alone.
ResetSettings_KeepsHidden ==
  /\ hiddenWellNames' = hiddenWellNames
  /\ modalWellControls' =
       Tuple([k \in 1..Len(modalWellControls) |->
                [modalWellControls[k] EXCEPT !.checked = TRUE]])
  /\ modalAutoScrollToggle' = FALSE
  /\ autoScrollToggle' = FALSE
  /\ \E sc \in {disableAutoScroll(Scroller)} :
       SetScroller([sc EXCEPT !.table =
                      applyWellColors(IF sc.table.present
                                      THEN [sc.table EXCEPT !.hidden = {}]
                                      ELSE sc.table,
                                      defaultWellColors)])
  /\ wellColors' = defaultWellColors
  /\ localStorage' =
       SetItem(SetItem(SetItem(localStorage, "hiddenWellNames",
                               JSONText(hiddenWellNames)),
                       "autoScroll", FalseText),
               "wellColors", JSONText(defaultWellColors))
  /\ modalColorControls' =
       renderColorControls(IF Truthy(currentData) THEN currentData
                           ELSE Obj(<<Key("wells")>>, <<Arr(<<>>)>>),
                           defaultWellColors)
  /\ ui' = [kind |-> "reset", theme |-> bodyDark,
            hiddenStockItems |-> hiddenStockItems]
  /\ UserActs({})
  /\ UNCHANGED <<hiddenStockItems, bodyDark, modalStockControls, kpiContainer,
                 now, raceVars, parseVars, helperVars, pollVars>>

\* Lines 238-266: the click on #resetSettings.
ResetSettings ==
  /\ hiddenWellNames' = <<>>
  /\ modalWellControls' =
       Tuple([k \in 1..Len(modalWellControls) |->
                [modalWellControls[k] EXCEPT !.checked = TRUE]])
  /\ modalAutoScrollToggle' = FALSE
  /\ autoScrollToggle' = FALSE
  /\ \E sc \in {disableAutoScroll(Scroller)} :
       SetScroller([sc EXCEPT !.table =
                      applyWellColors(IF sc.table.present
                                      THEN [sc.table EXCEPT !.hidden = {}]
                                      ELSE sc.table,
                                      defaultWellColors)])
  /\ wellColors' = defaultWellColors
  /\ localStorage' =
       SetItem(SetItem(SetItem(localStorage, "hiddenWellNames",
                               JSONText(<<>>)),
                       "autoScroll", FalseText),
               "wellColors", JSONText(defaultWellColors))
  /\ modalColorControls' =
       renderColorControls(IF Truthy(currentData) THEN currentData
                           ELSE Obj(<<Key("wells")>>, <<Arr(<<>>)>>),
                           defaultWellColors)
  /\ ui' = [kind |-> "reset", theme |-> bodyDark,
            hiddenStockItems |-> hiddenStockItems]
  /\ UserActs({})
  /\ UNCHANGED <<hiddenStockItems, bodyDark, modalStockControls, kpiContainer,
                 now, raceVars, parseVars, helperVars, pollVars>>

\* Line 1044: an interval that is running fires, at or after its period.
\* Its callback works on the table it was made for; that table is the one
\* of the document, since every pass that replaces the table ends by
\* clearing the intervals (lines 373-377).
Tick ==
  \E i \in intervals :
    /\ now >= i.due
    /\ tablesWrapper.present /\ tablesWrapper.el = i.el
    /\ tablesWrapper' = TickScroll(tablesWrapper, now)
    /\ intervals' = (intervals \ {i}) \cup {[i EXCEPT !.due = now + TickPeriod]}
    /\ ui' = [kind |-> "tick", el |-> i.el, at |-> now,
              scrollTop |-> tablesWrapper.scrollTop,
              scrolledAt |-> user.scrolledAt]
    /\ UNCHANGED <<hiddenWellNames, hiddenStockItems, wellColors, localStorage,
                   autoScrollToggle, modalAutoScrollToggle, bodyDark,
                   modalWellControls, modalStockControls, modalColorControls,
                   kpiContainer, autoScrollData, scrollListeners, userVars,
                   raceVars, parseVars, helperVars, pollVars>>

\* Line 1034-1036: the browser delivers the scroll event that a change of
\* scrollTop queued; the listener of line 1037, while registered, notes the
\* time.
ScrollEvent ==
  /\ tablesWrapper.present
  /\ tablesWrapper.scrollEvent
  /\ tablesWrapper' =
       [tablesWrapper EXCEPT
          !.scrollEvent = FALSE,
          !.lastUserScroll =
            IF \E l \in scrollListeners : l.el = tablesWrapper.el
            THEN NatChars(now) ELSE @]
  /\ ui' = [kind |-> "scrollEvent"]
  /\ UNCHANGED <<hiddenWellNames, hiddenStockItems, wellColors, localStorage,
                 autoScrollToggle, modalAutoScrollToggle, bodyDark,
                 modalWellControls, modalStockControls, modalColorControls,
                 kpiContainer, autoScrollData, intervals, scrollListeners,
                 userVars, raceVars, parseVars, helperVars, pollVars>>

\* The user scrolls the table to another position.
UserScroll ==
  /\ tablesWrapper.present
  /\ \E p \in 0..ScrollRange(tablesWrapper) :
    /\ p # tablesWrapper.scrollTop
    /\ tablesWrapper' = SetScrollTop(tablesWrapper, p)
    /\ ui' = [kind |-> "userScroll"]
    /\ user.acts < MaxActs
    /\ user' = [user EXCEPT !.acts = @ + 1, !.scrolledAt = now]
    /\ UNCHANGED <<hiddenWellNames, hiddenStockItems, wellColors, localStorage,
                   autoScrollToggle, modalAutoScrollToggle, bodyDark,
                   modalWellControls, modalStockControls, modalColorControls,
                   kpiContainer, autoScrollData, intervals, scrollListeners,
                   now, raceVars, parseVars, helperVars, pollVars>>

\* The clock advances by the period of the interval or by the pause.  A
\* scroll event that is queued is delivered with the next frame, which is
\* well within either lapse.
TimePasses ==
  \E d \in {TickPeriod, UserScrollPause} :
    /\ user.waits < MaxWaits
    /\ ~(tablesWrapper.present /\ tablesWrapper.scrollEvent)
    /\ now' = now + d
    /\ user' = [user EXCEPT !.waits = @ + 1]
    /\ UNCHANGED <<docVars, ui, raceVars, parseVars, helperVars, pollVars>>

-----------------------------------------------------------------------------
(* Specifications *)

NoHelper ==
  /\ helperCall = [fn |-> "none"]
  /\ helperRet = [done |-> FALSE]

\* Lines 110-231 on a browser profile that holds no item of the page: the
\* lists start empty and the colours at their defaults (lines 12-22), the
\* theme is dark and is stored (lines 157-164), auto-scroll is on and is
\* stored (lines 220-228).  No request has been answered: the document has
\* no table, no control and no card.
InitPage ==
  /\ hiddenWellNames = <<>>
  /\ hiddenStockItems = <<>>
  /\ wellColors = defaultWellColors
  /\ localStorage = [hiddenWellNames |-> Null, hiddenStockItems |-> Null,
                     wellColors |-> Null, autoScroll |-> TrueText,
                     theme |-> DarkText]
  /\ autoScrollToggle = TRUE
  /\ modalAutoScrollToggle = TRUE
  /\ bodyDark = TRUE
  /\ tablesWrapper = NoTable
  /\ modalWellControls = <<>>
  /\ modalStockControls = <<>>
  /\ modalColorControls = <<>>
  /\ kpiContainer = <<>>
  /\ autoScrollData = {}
  /\ intervals = {}
  /\ scrollListeners = {}
  /\ now = UserScrollPause
  /\ ui = [kind |-> "none"]
  /\ user = [hid |-> {}, scrolledAt |-> 0, acts |-> 0, waits |-> 0]
  /\ inFlight = {}
  /\ issued = 0
  /\ shown = [seq |-> 0, replaced |-> 0]

InitPoll ==
  /\ InitPage
  /\ currentData = Null
  /\ lastPayload = [set |-> FALSE]
  /\ poll = [kind |-> "none"]
  /\ renders = 0
  /\ errorHidden = TRUE
  /\ polls = 0

\* parseWellsFromData on every payload of the model.
InitParse ==
  /\ data \in Payloads
  /\ pc = "entry"
  /\ j = 0
  /\ result = [wells |-> <<>>]
  /\ calls = 1
  /\ InitPoll
  /\ NoHelper

NextParse == ParseEntry \/ ParseRow \/ ParseReturn \/ ParseCall

SpecParse == InitParse /\ [][NextParse]_vars

\* The date helpers on every argument of the model and every pair of hosts.
InitHelpers ==
  /\ helperCall \in
       [fn : {"excelSerialToDate"}, arg : HelperSerials, hosts : Hosts \X Hosts]
         \cup [fn : {"parseDateTimeString"}, arg : HelperTexts,
                hosts : Hosts \X Hosts]
  /\ helperRet = [done |-> FALSE]
  /\ data = Null
  /\ pc = "idle"
  /\ j = 0
  /\ result = [wells |-> <<>>]
  /\ calls = 0
  /\ InitPoll

NextHelpers == CallExcelSerialToDate \/ CallParseDateTimeString

SpecHelpers == InitHelpers /\ [][NextHelpers]_vars

\* The dashboard over successive polls.
Init ==
  /\ data = Null
  /\ pc = "idle"
  /\ j = 0
  /\ result = [wells |-> <<>>]
  /\ calls = 0
  /\ InitPoll
  /\ NoHelper

Next == InitialLoad \/ UpdatePoll \/ PollFails

Spec == Init /\ [][Next]_vars

\* The polls of lines 279-281 with their answers in any order.
NextRace == IssuePoll \/ Deliver

SpecRace == Init /\ [][NextRace]_vars

\* The dashboard with the settings modal in use.
NextSettings ==
  \/ DashLoad
  \/ DashUpdate
  \/ WellCheckboxChange
  \/ StockCheckboxChange
  \/ AutoScrollChange
  \/ ThemeChange
  \/ ColorInput
  \/ ResetSettings

SpecSettings == Init /\ [][NextSettings]_vars

\* The scroller of a loaded dashboard over time.
NextScroll == DashLoad \/ Tick \/ ScrollEvent \/ UserScroll \/ TimePasses

SpecScroll == Init /\ [][NextScroll]_vars

-----------------------------------------------------------------------------
(* Properties of parseWellsFromData (checked under SpecParse) *)

Items == GetProp(data, Key("items")).els
Started == pc # "entry"
StageLabels(well) == [n \in 1..Len(well.etapas) |-> well.etapas[n].etapa]

\* "items is a non-empty array", stated on the structure of the payload.
ClaimHasItems(d) ==
  /\ d.t = "object"
  /\ HasKey(d, Key("items"))
  /\ GetProp(d, Key("items")).t = "array"
  /\ Len(GetProp(d, Key("items")).els) > 0

\* "the payload is missing, or its items field is missing, not an array, or
\* an empty array".
ClaimNoFeed(d) ==
  \/ d.t \in {"undefined", "null"}
  \/ /\ d.t = "object"
     /\ \/ ~HasKey(d, Key("items"))
        \/ GetProp(d, Key("items")).t # "array"
        \/ GetProp(d, Key("items")).els = <<>>

NonSpace(c) == ~IsSpace(c)
\* "present, non-empty after trimming and not 'X' (case-insensitive,
\* trimmed)": a string with a non-blank character that is not an X alone.
ClaimUsableName(v) ==
  /\ v.t = "string"
  /\ SelectSeq(v.s, NonSpace) # <<>>
  /\ SelectSeq(v.s, NonSpace) \notin {<<"X">>, <<"x">>}
ClaimWellName(headerRow, i) ==
  IF ClaimUsableName(GetProp(headerRow, SlotKey("FechaFracPozo", i)))
  THEN GetProp(headerRow, SlotKey("FechaFracPozo", i))
  ELSE IF ClaimUsableName(GetProp(headerRow, SlotKey("TPNPozo", i)))
  THEN GetProp(headerRow, SlotKey("TPNPozo", i))
  ELSE Str(<<"P", "o", "z", "o", " ">> \o NatChars(i))

\* "Fila label is missing, empty or whitespace-only".
ClaimBlankLabel(row) ==
  \/ GetProp(row, Key("Fila")) = Undefined
  \/ /\ GetProp(row, Key("Fila")).t = "string"
     /\ SelectSeq(GetProp(row, Key("Fila")).s, NonSpace) = <<>>
\* "a non-empty trimmed Fila label".
ClaimLabelled(row) ==
  /\ GetProp(row, Key("Fila")).t = "string"
  /\ SelectSeq(GetProp(row, Key("Fila")).s, NonSpace) # <<>>

\* The 0-based indices k in from..(to - 1) of the labelled records, in
\* source order, and their trimmed labels.
RECURSIVE ClaimLabelledIdx(_, _, _)
ClaimLabelledIdx(items, from, to) ==
  IF from >= to \/ from >= Len(items) THEN <<>>
  ELSE (IF ClaimLabelled(ArrGet(items, from)) THEN <<from>> ELSE <<>>)
         \o ClaimLabelledIdx(items, from + 1, to)
ClaimLabels(items, from, to) ==
  [n \in 1..Len(ClaimLabelledIdx(items, from, to)) |->
     Str(Trim(GetProp(ArrGet(items, ClaimLabelledIdx(items, from, to)[n]),
                      Key("Fila")).s))]

\* "that value parsed as a number when it parses to a finite number, and
\* absent (null) otherwise".
ClaimDepth(raw) ==
  IF IsFinite(parseFloat(raw)) THEN parseFloat(raw) ELSE Null

\* C3 as stated: for every input payload, parseWellsFromData returns exactly
\* 6 wells.
C3_AlwaysSixWells == pc = "returned" => Len(result.wells) = 6

\* C3, amended: for a payload whose items is a non-empty array, the call
\* builds exactly 6 wells before it reads any stage row, well k named from
\* the header keys of slot k, and no later step adds, removes or reorders
\* wells; for any other payload it returns no wells.
C3_SixWellsInSlotOrder ==
  /\ (Started /\ ClaimHasItems(data)) =>
       /\ Len(result.wells) = 6
       /\ \A i \in 1..6 :
            result.wells[i].name \in
              {GetProp(ArrGet(Items, 0), SlotKey("FechaFracPozo", i)),
               GetProp(ArrGet(Items, 0), SlotKey("TPNPozo", i)),
               Str(<<"P", "o", "z", "o", " ">> \o NatChars(i))}
  /\ (Started /\ ~ClaimHasItems(data)) => Len(result.wells) = 0
\* A result of six wells for a header that names only some of the slots.
C3_Witness ==
  /\ pc = "returned"
  /\ ClaimHasItems(data)
  /\ Len(result.wells) = 6
  /\ result.wells[1].name = Str(<<"A", "1">>)
  /\ result.wells[6].name = Str(<<"P", "o", "z", "o", " ", "6">>)

\* C4 as stated: parseWellsFromData never raises, whatever the JSON types of
\* the records, the row labels and the per-well values.
C4_NeverRaises == pc # "threw"

\* C5: without a payload, or with items missing, not an array or empty, the
\* call returns the empty result and does not raise.
C5_EmptyResultWithoutItems ==
  (Started /\ ClaimNoFeed(data)) =>
    (pc = "returned" /\ result = [wells |-> <<>>])
\* The call has returned for a payload whose items is not an array.
C5_Witness ==
  /\ pc = "returned"
  /\ data.t = "object"
  /\ HasKey(data, Key("items"))
  /\ GetProp(data, Key("items")).t # "array"

C7_BlankRowsAddNoStage ==
  [][(pc = "rows" /\ j < Len(Items) /\ ClaimBlankLabel(ArrGet(Items, j)))
       => result' = result]_vars
\* The loop has passed a whitespace-labelled record that carries per-well
\* values, and a labelled record has produced stages.
C7_Witness ==
  /\ pc = "returned"
  /\ ClaimHasItems(data)
  /\ \E k \in 2..(Len(Items) - 1) :
       /\ GetProp(ArrGet(Items, k), Key("Fila")) = Str(<<" ">>)
       /\ HasKey(ArrGet(Items, k), SlotKey("TPNPozo", 1))
  /\ Len(result.wells[1].etapas) = 1

\* C8 as stated: when the call ends, every well holds exactly one stage for
\* every labelled record at index >= 2, so the six lists have that length.
C8_OneStagePerLabelledRow ==
  (pc \in {"returned", "threw"} /\ ClaimHasItems(data)) =>
    \A i \in 1..6 :
      Len(result.wells[i].etapas)
        = Len(ClaimLabelledIdx(Items, 2, Len(Items)))

\* C9: the stage labels of every well are the trimmed labels of the labelled
\* records the loop has passed, from index 2 on and in source order; the
\* records at index 0 and 1 contribute none.
C9_StagesFollowSourceOrder ==
  (Started /\ ClaimHasItems(data)) =>
    \A i \in 1..6 : StageLabels(result.wells[i]) = ClaimLabels(Items, 2, j)
\* Header and reserved record both carry a label, and the rows labelled
\* "2" and "1" come out in that (source) order.
C9_Witness ==
  /\ pc = "returned"
  /\ ClaimHasItems(data)
  /\ ClaimLabelled(ArrGet(Items, 0))
  /\ ClaimLabelled(ArrGet(Items, 1))
  /\ StageLabels(result.wells[1]) = <<Str(<<"2">>), Str(<<"1">>)>>

\* C10 as stated: the profundidad of every stage is the raw TPNPozo{i} value
\* of its row parsed as a number when that is finite (numbers and numeric
\* strings alike, zero included), and null otherwise.
C10_DepthParsedOrAbsent ==
  (Started /\ ClaimHasItems(data)) =>
    \A i \in 1..6 : \A n \in 1..Len(result.wells[i].etapas) :
      result.wells[i].etapas[n].profundidad
        = ClaimDepth(GetProp(ArrGet(Items, ClaimLabelledIdx(Items, 2, j)[n]),
                             SlotKey("TPNPozo", i)))

\* The raw value under key base{i} of the row that produced stage n.
StageRaw(base, i, n) ==
  GetProp(ArrGet(Items, ClaimLabelledIdx(Items, 2, j)[n]), SlotKey(base, i))

AllDigits(cs) == cs # <<>> /\ \A n \in 1..Len(cs) : IsDigit(cs[n])
\* "a text of the form D/M/Y, D/M/Y H:M or D/M/Y H:M:S": three groups of
\* digits separated by slashes, then optionally a blank and two or three
\* groups of digits separated by colons.
ClaimIsDMYText(v) ==
  /\ v.t = "string"
  /\ Trim(v.s) # <<>>
  /\ LET parts == SplitSpaces(Trim(v.s))
     IN /\ Len(parts) \in {1, 2}
        /\ Len(SplitOn(parts[1], "/")) = 3
        /\ \A n \in 1..3 : AllDigits(SplitOn(parts[1], "/")[n])
        /\ Len(parts) = 2 =>
             /\ Len(SplitOn(parts[2], ":")) \in {2, 3}
             /\ \A n \in 1..Len(SplitOn(parts[2], ":")) :
                  AllDigits(SplitOn(parts[2], ":")[n])
\* "can be decoded as a spreadsheet serial": a number, or a text that reads
\* as one, with a finite value.
ClaimIsSerial(v) == v.t \in {"number", "string"} /\ IsFinite(parseFloat(v))

\* C11 as stated: fechaHora is empty whenever the raw sequence value is
\* empty or decodes neither as a serial nor as a D/M/Y text.
C11_UndecodedTimestampIsEmpty ==
  (Started /\ ClaimHasItems(data)) =>
    \A i \in 1..6 : \A n \in 1..Len(result.wells[i].etapas) :
      (~ClaimIsSerial(StageRaw("SecuenciaPozo", i, n))
         /\ ~ClaimIsDMYText(StageRaw("SecuenciaPozo", i, n)))
        => result.wells[i].etapas[n].fechaHora = Str(<<>>)

\* C12 as stated: a raw sequence or fracture value that is a D/M/Y text is
\* decoded by parseDateTimeString, so the stage shows day D of month M of
\* year Y.
C12_DayFirstTextUsesTextParser ==
  (Started /\ ClaimHasItems(data)) =>
    \A i \in 1..6 : \A n \in 1..Len(result.wells[i].etapas) :
      /\ ClaimIsDMYText(StageRaw("SecuenciaPozo", i, n)) =>
           result.wells[i].etapas[n].fechaHora
             = Str(DateTimeChars(
                     parseDateTimeString(StageRaw("SecuenciaPozo", i, n))))
      /\ ClaimIsDMYText(StageRaw("FechaFracPozo", i, n)) =>
           result.wells[i].etapas[n].fechaFracturaDate
             = parseDateTimeString(StageRaw("FechaFracPozo", i, n))

\* C13 as stated: a fracture value that decodes (serial or D/M/Y text) gives
\* a date and the display text of that date; a text that does not decode is
\* kept as fechaFractura, with fechaFracturaDate null.
C13_FractureTextAndDate ==
  (Started /\ ClaimHasItems(data)) =>
    \A i \in 1..6 : \A n \in 1..Len(result.wells[i].etapas) :
      LET raw == StageRaw("FechaFracPozo", i, n)
          st == result.wells[i].etapas[n]
      IN IF ClaimIsSerial(raw) \/ ClaimIsDMYText(raw)
         THEN /\ st.fechaFracturaDate.t = "date"
              /\ st.fechaFracturaDate.valid
              /\ st.fechaFractura = Str(toLocaleDateString(st.fechaFracturaDate))
         ELSE raw.t = "string" =>
                (st.fechaFractura = raw /\ st.fechaFracturaDate = Null)

\* The payload d with every record cut down to its Fila label and the keys
\* of well slot i.
ClaimOnlySlotOf(rec, i) ==
  IF rec.t # "object" THEN rec
  ELSE LET Kept(n) == rec.keys[n][2] \in {0, i}
           RECURSIVE Idx(_)
           Idx(n) == IF n > Len(rec.keys) THEN <<>>
                     ELSE (IF Kept(n) THEN <<n>> ELSE <<>>) \o Idx(n + 1)
       IN Obj(Tuple([n \in 1..Len(Idx(1)) |-> rec.keys[Idx(1)[n]]]),
              Tuple([n \in 1..Len(Idx(1)) |-> rec.vals[Idx(1)[n]]]))
ClaimOnlySlot(d, i) ==
  IF ~ClaimHasItems(d) THEN d
  ELSE SetProp(d, Key("items"),
               Arr(Tuple([n \in 1..Len(GetProp(d, Key("items")).els) |->
                            ClaimOnlySlotOf(GetProp(d, Key("items")).els[n], i)])))

\* C18: when the call ends, well i (name and stage list) is what the call
\* makes of the payload cut down to slot i and the Fila labels, so two
\* payloads that agree on these give the same well i; the call throws for
\* the one exactly when it throws for the other.
C18_WellDependsOnOwnSlot ==
  (pc \in {"returned", "threw"} /\ ClaimHasItems(data)) =>
    \A i \in 1..6 :
      Eval(LAMBDA own :
             /\ own.threw = (pc = "threw")
             /\ result.wells[i] = own.wells[i],
           parseWellsFromData(ClaimOnlySlot(data, i)))
\* The call has returned stages for a row whose slots 1 and 2 carry
\* different values, those of slot 2 malformed.
C18_Witness ==
  /\ pc = "returned"
  /\ ClaimHasItems(data)
  /\ Len(Items) > 2
  /\ GetProp(ArrGet(Items, 2), SlotKey("TPNPozo", 1))
       = Str(<<"2", "5", "0", "0", ".", "5">>)
  /\ ~HasKey(ArrGet(Items, 2), SlotKey("TPNPozo", 2))
  /\ GetProp(ArrGet(Items, 2), SlotKey("SecuenciaPozo", 5)) = Str(<<"a", "b", "c">>)
  /\ Len(result.wells[1].etapas) >= 1
  /\ result.wells[1].etapas[1].profundidad = Num(FALSE, 2500, <<"5">>)
  /\ result.wells[2].etapas[1].profundidad = Null

\* C19: no step of a call changes the payload, and the result a call
\* returns is the one the payload alone determines, whatever an earlier
\* call left behind.
C19_PureAndFresh ==
  [][/\ pc \in {"entry", "rows"} => data' = data
     /\ (pc = "rows" /\ pc' = "returned") =>
          result' = [wells |-> parseWellsFromData(data').wells]
     /\ (pc = "entry" /\ pc' = "returned") => result' = [wells |-> <<>>]]_vars
\* A second call has returned six wells of one stage each.
C19_Witness ==
  /\ calls = 2
  /\ pc = "returned"
  /\ ClaimHasItems(data)
  /\ Len(result.wells) = 6
  /\ Len(result.wells[1].etapas) = 1

-----------------------------------------------------------------------------
(* Properties of the polling gate (checked under Spec) *)

\* C1 as stated: an update poll that returns the payload of the previous
\* successful poll does not invoke updateDashboard.
C1_IdenticalPollDoesNotRender ==
  (poll.kind = "update" /\ poll.prev.set /\ poll.payload = poll.prev.v)
    => ~poll.invoked

\* C2 as stated: an update poll whose payload differs from the previous
\* payload in any key, key order or value invokes updateDashboard, and
\* currentData becomes that payload.
C2_DifferentPayloadIsRendered ==
  (poll.kind = "update" /\ poll.prev.set /\ poll.payload # poll.prev.v)
    => /\ poll.invoked
       /\ poll.payload.t = "object" =>
            \A n \in 1..Len(poll.payload.keys) :
              poll.payload.keys[n] # Key("wells") =>
                GetProp(currentData, poll.payload.keys[n])
                  = poll.payload.vals[n]
       /\ poll.payload.t # "object" => currentData = poll.payload

\* C20: a poll that fails leaves currentData as it was, invokes no
\* updateDashboard pass and shows the error message.
C20_FailedPollOnlyShowsError ==
  [][(poll'.kind = "failed" /\ polls' = polls + 1) =>
       /\ currentData' = currentData
       /\ renders' = renders
       /\ ~poll'.invoked
       /\ ~errorHidden']_vars
\* A poll has failed after a pass that rendered a feed.
C20_Witness ==
  /\ poll.kind = "failed"
  /\ renders > 0
  /\ currentData.t = "object"
  /\ HasKey(currentData, Key("wells"))
  /\ ~errorHidden

-----------------------------------------------------------------------------
(* Properties of the date helpers (checked under SpecHelpers) *)

ExcelDone == helperRet.done /\ helperCall.fn = "excelSerialToDate"
TextDone == helperRet.done /\ helperCall.fn = "parseDateTimeString"

\* "an integer serial": a number without fraction, or a text of digits.
ClaimIntegerSerial(v) ==
  \/ v.t = "number" /\ v.k = "fin" /\ v.frac = <<>>
  \/ v.t = "string" /\ AllDigits(v.s)
ClaimSerialValue(v) == IntOf(parseFloat(v))
\* The calendar date n days after the day d of month m of year y.
ClaimDateAfter(y, m, d, n) == CivilFromDays(DaysFromCivil(y, m, d) + n)
ClaimSameDay(dt, c) ==
  dt.t = "date" /\ dt.valid /\ dt.y = c.y /\ dt.mo + 1 = c.m /\ dt.d = c.d

ClaimUTCComponents(num) ==
  LET F == DigitsVal(num.frac)
      P == Pow10(Len(num.frac))
      day == IF ~num.neg THEN num.int - 25569
             ELSE 0 - num.int - 25569 - (IF F > 0 THEN 1 ELSE 0)
      sod == IF F = 0 THEN 0
             ELSE IF ~num.neg THEN (F * 86400) \div P
             ELSE ((P - F) * 86400) \div P
  IN DateOf(CivilFromDays(day).y, CivilFromDays(day).m - 1,
            CivilFromDays(day).d, sod \div 3600, (sod % 3600) \div 60,
            sod % 60)

\* C15 as stated: for every numeric serial and every pair of hosts the
\* decoded components are the same, and are the UTC components of the
\* serial's instant.
C15_SameComponentsOnEveryHost ==
  (ExcelDone /\ helperCall.arg.t \in {"number", "string"}
     /\ IsFinite(parseFloat(helperCall.arg))) =>
    /\ helperRet.dates[1] = helperRet.dates[2]
    /\ helperRet.dates[1] = ClaimUTCComponents(parseFloat(helperCall.arg))

\* The components a D/M/Y text names.
ClaimTextParts(v) == SplitSpaces(Trim(v.s))
ClaimDateField(v, n) == DigitsVal(SplitOn(ClaimTextParts(v)[1], "/")[n])
ClaimTimeField(v, n) ==
  IF Len(ClaimTextParts(v)) = 2
       /\ Len(SplitOn(ClaimTextParts(v)[2], ":")) >= n
  THEN DigitsVal(SplitOn(ClaimTextParts(v)[2], ":")[n]) ELSE 0
ClaimDaysInMonth(y, m) ==
  IF m = 12 THEN 31 ELSE DaysFromCivil(y, m + 1, 1) - DaysFromCivil(y, m, 1)
\* "with in-range integer components".
ClaimInRange(v) ==
  /\ ClaimDateField(v, 2) \in 1..12
  /\ ClaimDateField(v, 1) >= 1
  /\ ClaimDateField(v, 1)
       <= ClaimDaysInMonth(ClaimDateField(v, 3), ClaimDateField(v, 2))
  /\ ClaimTimeField(v, 1) \in 0..23
  /\ ClaimTimeField(v, 2) \in 0..59
  /\ ClaimTimeField(v, 3) \in 0..59

\* C16 as stated: a D/M/Y text with in-range components gives the local
\* date-time with year Y, month M, day D and the given time, a missing time
\* part being 0.
C16_TextGivesItsComponents ==
  (TextDone /\ ClaimIsDMYText(helperCall.arg) /\ ClaimInRange(helperCall.arg))
    => \A k \in 1..2 :
         helperRet.dates[k]
           = DateOf(ClaimDateField(helperCall.arg, 3),
                    ClaimDateField(helperCall.arg, 2) - 1,
                    ClaimDateField(helperCall.arg, 1),
                    ClaimTimeField(helperCall.arg, 1),
                    ClaimTimeField(helperCall.arg, 2),
                    ClaimTimeField(helperCall.arg, 3))

\* "the date segment is exactly three slash-separated integers".
ClaimDateSegmentOK(v) ==
  /\ v.t = "string"
  /\ Trim(v.s) # <<>>
  /\ Len(SplitOn(ClaimTextParts(v)[1], "/")) = 3
  /\ \A n \in 1..3 : AllDigits(SplitOn(ClaimTextParts(v)[1], "/")[n])

\* C17 as stated: null for every input whose date segment is not three
\* slash-separated integers; a result that is not null is a valid date-time.
C17_NullOrValid ==
  TextDone =>
    \A k \in 1..2 :
      /\ ~ClaimDateSegmentOK(helperCall.arg) => helperRet.dates[k] = Null
      /\ helperRet.dates[k] # Null =>
           (helperRet.dates[k].t = "date" /\ helperRet.dates[k].valid)

-----------------------------------------------------------------------------
(* Properties of overlapping polls (checked under SpecRace) *)

\* C21 as stated: whatever the order of requests and answers, the payload
\* held in currentData is never replaced by the payload of a poll issued
\* before the one it came from.
C21_StaleNeverOverwrites == shown.replaced <= shown.seq

-----------------------------------------------------------------------------
(* Properties of the settings (checked under SpecSettings) *)

\* A pass of updateDashboard has just run to its end.
PassCompleted == ui.kind = "poll" /\ ui.rendered
\* The names of the wells of the data shown (none without a wells array).
ClaimCurrentNames ==
  IF NoWellsArray(currentData) THEN <<>> ELSE ValidNames(currentData)
\* The stored copy of the hidden wells reads back as the list (no item
\* reads back as the empty list, lines 119-120).
ClaimHiddenPersisted ==
  \/ localStorage.hiddenWellNames = JSONText(hiddenWellNames)
  \/ localStorage.hiddenWellNames = Null /\ hiddenWellNames = <<>>
ClaimHiddenAreCurrent ==
  /\ \A n \in 1..Len(hiddenWellNames) :
       Includes(ClaimCurrentNames, hiddenWellNames[n])
  /\ ClaimHiddenPersisted

C23_HiddenWellStaysHidden ==
  \A name \in user.hid :
    (tablesWrapper.present /\ Includes(tablesWrapper.names, name))
      => name \in tablesWrapper.hidden

\* The last handler ended with disableAutoScroll and started nothing after.
ClaimAutoScrollDisabled ==
  \/ ui.kind = "reset"
  \/ ui.kind = "autoScroll" /\ ~ui.checked
  \/ PassCompleted /\ ~autoScrollToggle

\* C24: every running interval is recorded in autoScrollData, no two run on
\* one table, each runs on the table of the document and that table's
\* hasData is 'true'; and after disableAutoScroll no interval runs and no
\* scroll listener is registered.
C24_IntervalsRecordedAndSingle ==
  /\ \A i \in intervals :
       /\ \E e \in autoScrollData : e.el = i.el /\ e.intervalId = i.id
       /\ tablesWrapper.present
       /\ tablesWrapper.el = i.el
       /\ tablesWrapper.hasData = "true"
  /\ \A i1, i2 \in intervals : i1.el = i2.el => i1 = i2
  /\ \A l \in scrollListeners :
       \E e \in autoScrollData : e.el = l.el /\ e.scrollListener = l.id
  /\ ClaimAutoScrollDisabled => intervals = {} /\ scrollListeners = {}
\* Auto-scroll runs on the table of a second pass: one interval, recorded.
C24_Witness ==
  /\ PassCompleted
  /\ renders = 2
  /\ autoScrollToggle
  /\ Cardinality(intervals) = 1
  /\ Cardinality(autoScrollData) = 1

\* The stock item a checkbox of the modal stands for.
ClaimStockItem == StockItems(currentData)[ui.item]
ClaimCardShown(item) ==
  \E n \in 1..Len(kpiContainer) : kpiContainer[n].title = StockName(item)
ClaimHasStock(item) ==
  /\ ~NotAvailable(StockName(item))
  /\ ~NotAvailable(StockRaw(item))

\* C28 as stated: once the user unchecks the checkbox of a stock item its
\* card is not in the KPI container, and once the user re-checks it the card
\* is there exactly when the item's name and stock are non-empty and not
\* 'N/A'.
C28_UncheckedStockCardIsRemoved ==
  (ui.kind = "stockCheckbox" /\ ui.item <= Len(StockItems(currentData)))
    => (ClaimCardShown(ClaimStockItem)
          <=> (ui.checked /\ ClaimHasStock(ClaimStockItem)))

\* What Reset leaves: no hidden well, auto-scroll off, the default colours,
\* each one stored.
ClaimResetState ==
  /\ hiddenWellNames = <<>>
  /\ localStorage.hiddenWellNames = JSONText(<<>>)
  /\ ~autoScrollToggle
  /\ intervals = {}
  /\ localStorage.autoScroll = FalseText
  /\ wellColors = defaultWellColors
  /\ localStorage.wellColors = JSONText(defaultWellColors)

\* C29: right after Reset, and still after the next poll, no well is
\* hidden, auto-scroll is off and the colours are the defaults, each one
\* stored; Reset leaves the theme and hiddenStockItems as they were.
C29_ResetStateHolds ==
  /\ ui.kind = "reset" =>
       /\ ClaimResetState
       /\ bodyDark = ui.theme
       /\ hiddenStockItems = ui.hiddenStockItems
  /\ (ui.kind = "poll" /\ ui.after = "reset") => ClaimResetState
\* A pass has run after a Reset that undid a hidden well: the table has
\* data, nothing is hidden and no interval runs.
C29_Witness ==
  /\ PassCompleted
  /\ ui.after = "reset"
  /\ user.acts = 2
  /\ tablesWrapper.present
  /\ tablesWrapper.hasData = "true"
  /\ tablesWrapper.hidden = {}
  /\ intervals = {}

-----------------------------------------------------------------------------
(* Properties of the scroller (checked under SpecScroll) *)

\* The step is the callback of an interval.
ClaimTick == ui'.kind = "tick" /\ intervals' # intervals
\* The callback is not held back by the pause the code keeps.
ClaimNotPaused ==
  LET last == parseInt(IF tablesWrapper.lastUserScroll # <<>>
                       THEN tablesWrapper.lastUserScroll ELSE <<"0">>)
  IN now - IntOf(last) >= UserScrollPause

\* C25 as stated: a tick of a table's interval moves the scroll position
\* forward, and takes it back to 0 once the end has been reached.
C25_ReturnsToStartAtEnd ==
  [][(ClaimTick /\ ClaimNotPaused /\ getLastDataScroll(tablesWrapper) > 0) =>
       IF tablesWrapper.scrollTop >= getLastDataScroll(tablesWrapper)
       THEN tablesWrapper'.scrollTop = 0
       ELSE tablesWrapper'.scrollTop > tablesWrapper.scrollTop]_vars

\* The user scrolled the table less than 3 s ago.
ClaimUserScrolledLately ==
  user.scrolledAt > 0 /\ now - user.scrolledAt < UserScrollPause

\* C26 as stated: a tick leaves the position alone when the user scrolled
\* the table within the last 3 s or its container is hidden; otherwise a
\* tick below the target moves the position by exactly 1 and not past the
\* target.
C26_TickStepsByOneUnlessPaused ==
  [][ClaimTick =>
       IF ClaimUserScrolledLately \/ tablesWrapper.display = "none"
       THEN tablesWrapper'.scrollTop = tablesWrapper.scrollTop
       ELSE tablesWrapper.scrollTop < getLastDataScroll(tablesWrapper) =>
              /\ tablesWrapper'.scrollTop = tablesWrapper.scrollTop + 1
              /\ tablesWrapper'.scrollTop <= getLastDataScroll(tablesWrapper)]_vars

\* The last row of the data in which some well has a date/time or a depth
\* (0: none), and the scroll position that shows it.
ClaimHasDateOrDepth(etapaObj) ==
  \/ Truthy(GetProp(etapaObj, Key("fechaHora")))
  \/ IsNum(GetProp(etapaObj, Key("profundidad")))
ClaimLastDataRow(wells) ==
  LET rows == {r \in 1..MaxRowsOf(wells) :
                 \E w \in 1..Len(wells) :
                   /\ r <= Len(Etapas(wells[w]))
                   /\ ClaimHasDateOrDepth(Etapas(wells[w])[r])}
  IN IF rows = {} THEN 0 ELSE CHOOSE r \in rows : \A q \in rows : q <= r
ClaimLastDataScroll(wells) ==
  IF ClaimLastDataRow(wells) = 0 THEN 0
  ELSE Max0(OffsetTop(ClaimLastDataRow(wells)) + RowHeight - ClientHeight)

\* C27 as stated: for the table renderTables built from the data,
\* getLastDataScroll gives the position of the last row in which some well
\* has a date/time or a depth, and 0 when no row has one.
C27_TargetIsLastRowWithData ==
  (PassCompleted /\ tablesWrapper.present) =>
    getLastDataScroll(tablesWrapper)
      = ClaimLastDataScroll(DataWells(currentData).els)

=============================================================================
